---- MODULE Spec2Model ----
(***************************************************************************)
(* A model of the bus-synth browser client: the InterpolatedMapManager     *)
(* (per-bus position history, lagged interpolation, pruning) and the       *)
(* BusSynthApp arrival detector that runs on every real-time batch.        *)
(*                                                                         *)
(* Time is Date.now() in milliseconds, counted from an arbitrary origin.   *)
(* Positions are points on one meridian, given in metres of arc from a     *)
(* reference latitude, so that the haversine distance of two points is the *)
(* absolute difference of their coordinates.  Interpolated coordinates,    *)
(* bearings and crossing times are exact rationals [n, d].                 *)
(***************************************************************************)
EXTENDS Integers, Sequences, FiniteSets, TLC

(***************************************************************************)
(* Program constants.                                                      *)
(***************************************************************************)
STOP_THRESHOLD_METERS == 100
APPROACH_THRESHOLD_METERS == 20
ARRIVAL_DEBOUNCE_MS == 30000
MAX_BLAST_DELAY_MS == 15000
GRID_SIZE == 50
SEARCH_RADIUS_MULTIPLIER == 2
DISPLAY_LAG_MS == 60000
MAX_HISTORY_AGE_MS == 180000
HISTORICAL_SPREAD_MS == 90000
HISTORICAL_INTERVAL_MS == 10000
MAX_TIME_GAP_MS == 30000
HISTORY_CAP == 100
FALLBACK_TOLERANCE_MS == 30000
MAX_PLAY_DELAY_MS == 5000
IMMEDIATE_PLAY_MS == 100
MAX_EVENT_HISTORY == 10
DELAY_DATA_MAX_AGE_S == 3600
METERS_PER_DEGREE == 111000
maxReconnectAttempts == 5
reconnectDelay == 1000
animationDuration == 2000
BROADCAST_INTERVAL_MS == 10000
EARTH_RADIUS_METERS == 6371000
CACHE_MAX_AGE_MS == 90000
CACHE_CLEANUP_INTERVAL_MS == 30000
CACHE_MAX_ENTRIES == 50
MIN_DELAY_SECONDS == 10
PULSE_RATE_MIN_HZ == [n |-> 1, d |-> 20]
PULSE_RATE_MAX_HZ == [n |-> 2, d |-> 1]
MAX_BUSES_PER_ROUTE == 20
PULSE_OVERLAP_SECONDS == [n |-> 1, d |-> 20]

(***************************************************************************)
(* Bounds of the model.                                                    *)
(***************************************************************************)
\* Date.now() when the page has finished initialize().
StartTime == 200000
\* Broadcast intervals the main specification runs for.
MaxSteps == 3
\* Clock steps the history specification runs for.
MaxStepsH == 3
\* Connections (first connect and reconnects) the WebSocket client makes.
MaxConnects == 2
\* Entries the server's historical cache replays on one connection.
MaxHistEntries == 6
\* The same, in the history specification.
MaxHistEntriesH == 1
\* Broadcast intervals the shuttle specification runs for.
MaxStepsD == 9
\* Times the bus of the shuttle specification changes place.
MaxMoves == 3
\* Broadcast intervals the hidden-tab specification runs for.
MaxStepsC == 102
\* Frame steps and replayed cache entries of the interpolation specification.
MaxStepsI == 2
MaxHistEntriesI == 4
\* Clock steps of the server cache specification and the entries it may hold.
MaxStepsCache == 4
\* Cleanup intervals the socket specification runs for.
MaxStepsServer == 4
\* Broadcast intervals the delay specification runs for.
MaxStepsDelay == 3
\* Historical messages the connection of the delay specification replays.
MaxHistEntriesDelay == 1
\* Broadcast intervals the specification of malformed entries runs for.
MaxStepsEntries == 2
\* Historical messages its connection replays.
MaxHistEntriesEntries == 1
\* Broadcast intervals the audio specification runs for.
MaxStepsAudio == 6
\* Historical messages its connection replays.
MaxHistEntriesAudio == 4
\* Broadcast intervals the specification of blast delays runs for, the long
\* pause apart, and the historical messages its connection replays.
MaxStepsBlast == 9
MaxHistEntriesBlast == 4
\* Broadcast intervals the specification of replay bursts runs for.
MaxStepsBurst == 2
\* Broadcast intervals the specification of the page and its server runs for.
MaxStepsPage == 3
\* Seconds the specification of the WebSocket client runs for, and the
\* sockets the client may make.
MaxStepsClient == 32
MaxSockets == 6
\* Half animation durations the specification of the stops layer runs for,
\* and the animation frames the layer may request.
MaxStepsStops == 3
MaxFrames == 5
MaxCacheEntries == 52

Buses == {"b1", "b2"}
Stops == {"s1", "s2", "s3", "s4"}

\* stop_lat of each stop, in metres of arc.
StopLat(s) == CASE s = "s1" -> 0
                [] s = "s2" -> 200
                [] s = "s3" -> 260
                [] s = "s4" -> 1000

\* The raw route_id the feed reports for the trip of each bus.
RawRouteOf(b) == IF b = "b1" THEN 100 ELSE 3

\* A batch entry without a position.
Absent == -1
\* A batch entry with a position whose vehicle has no vehicle.id or no trip.
NoTrip == -2

(***************************************************************************)
(* Exact rational arithmetic.                                              *)
(***************************************************************************)
RECURSIVE GCD(_, _)
GCD(a, b) == IF b = 0 THEN a ELSE GCD(b, a % b)

Abs(x) == IF x < 0 THEN -x ELSE x

RNorm(n, d) == LET g == GCD(Abs(n), d) IN [n |-> n \div g, d |-> d \div g]

R(i) == [n |-> i, d |-> 1]

RAdd(x, y) == RNorm(x.n * y.d + y.n * x.d, x.d * y.d)
RSub(x, y) == RNorm(x.n * y.d - y.n * x.d, x.d * y.d)
RMul(x, y) == LET g1 == GCD(Abs(x.n), y.d)
                  g2 == GCD(Abs(y.n), x.d)
              IN RNorm((x.n \div g1) * (y.n \div g2), (x.d \div g2) * (y.d \div g1))
\* x / y for y > 0
RDiv(x, y) == RMul(x, [n |-> y.d, d |-> y.n])
RLt(x, y) == x.n * y.d < y.n * x.d
RLe(x, y) == x.n * y.d <= y.n * x.d
RAbs(x) == [n |-> Abs(x.n), d |-> x.d]
RFloor(x) == x.n \div x.d
RCeil(x) == -((-x.n) \div x.d)
RMax(x, y) == IF RLt(x, y) THEN y ELSE x
RMin(x, y) == IF RLt(x, y) THEN x ELSE y


(***************************************************************************)
(* State.                                                                  *)
(***************************************************************************)
VARIABLES
  now,                           \* Date.now()
  pendingHist,                   \* historical messages of the current connection not yet delivered
  burstIndex,                    \* historical messages of the current connection handled so far
  connects,                      \* connections opened so far
  lastBroadcastAt,               \* when the last real-time broadcast arrived, or NoTime
  busPositionHistory,            \* busId -> sequence of samples (<<>>: no key)
  currentInterpolatedPositions,  \* busId -> lagged position, or NoPos
  busMarkers,                    \* busIds with a marker
  busTrails,                     \* busIds with a trail on the canvas layer
  currentTime,                   \* mapManager.currentTime
  lastAnimationTime,             \* mapManager.lastAnimationTime
  historicalDataCount,           \* mapManager.historicalDataCount
  isProcessingHistoricalData,    \* mapManager.isProcessingHistoricalData
  lastBusPositions,              \* busId -> last position seen by the arrival detector
  recentArrivals,                \* <<busId, stopId>> -> time of the last arrival, or NoTime
  isAudioStarted,                \* app.isAudioStarted
  blastTimers,                   \* pending setTimeout callbacks of delayed arrival blasts
  blasts,                        \* audioManager.triggerArrivalBlast calls that played so far
  recentArrivalEvents,           \* app.recentArrivalEvents, newest first
  emitted,                       \* arrivals emitted so far (animateStopPulse calls)
  detectedFrom,                  \* lastBusPositions as the last detectStopArrivals call found it
  interpPath,                    \* busId -> branch updateInterpolatedPositions took in the frame
  interpStored,                  \* busIds the frame stored a lagged position for
  cleanupRemoved,                \* busIds the frame's cleanupOldHistory pass removed
  lastOp,                        \* the last step of the data path: clock, message handler or frame
  callArgs,                      \* arguments of a call of one of the pure helper methods
  callResult,                    \* what that call returned
  lastBatch,                     \* data.buses of the message handled last, or NoBatch
  cacheEntries,                  \* historicalCache.entries of the server
  wsClients,                     \* wss.clients: the sockets that are open
  sent,                          \* socket -> the messages the server sent on it, in order
  connectedAt,                   \* socket -> Date.now() of its 'connection' event, or NoTime
  addedAt,                       \* Date.now() of every addEntry call so far
  stopDelays,                    \* app.stopDelays: stopId -> delay record, or NoRecord
  delayTimers,                   \* pending setTimeout callbacks of delay disruptions
  recentDelayEvents,             \* app.recentDelayEvents, newest first
  lastUpdates,                   \* data.updates of the message handled last
  routes,                        \* audioManager.routes: routeId -> route audio, or NoRoute
  routeBusData,                  \* the route ids of app.routeBusData
  clientWs,                      \* wsClient.ws: the number of its socket, or NoSocket
  sockets,                       \* the sockets new WebSocket() made, in order: their readyState
  isConnected,                   \* wsClient.isConnected
  reconnectAttempts,             \* wsClient.reconnectAttempts
  status,                        \* the last status given to onStatusChange
  reconnectTimers,               \* pending setTimeout callbacks of handleReconnect
  disconnectCalled,              \* disconnect() has been called
  attemptsSinceOpen,             \* reconnect timers that have fired since the last onopen
  animations,                    \* stopsLayer.animations: stopId -> startTime, or NoTime
  isAnimating,                   \* stopsLayer.isAnimating
  animationFrame,                \* stopsLayer.animationFrame: a request id, or NoFrame
  pendingFrames,                 \* ids of the requested animation frames not yet run or cancelled
  framesRequested                \* requestAnimationFrame calls of the stops layer so far

vars == <<now, pendingHist, burstIndex, connects, lastBroadcastAt, busPositionHistory, currentInterpolatedPositions,
          busMarkers, busTrails, currentTime, lastAnimationTime, historicalDataCount,
          isProcessingHistoricalData, lastBusPositions, recentArrivals, isAudioStarted,
          blastTimers, blasts, recentArrivalEvents, emitted, detectedFrom, interpPath,
          interpStored, cleanupRemoved, lastOp, callArgs, callResult, lastBatch, cacheEntries,
          wsClients, sent, connectedAt, addedAt, stopDelays, delayTimers, recentDelayEvents,
          lastUpdates, routes, routeBusData, clientWs, sockets, isConnected, reconnectAttempts,
          status, reconnectTimers, disconnectCalled, attemptsSinceOpen, animations,
          isAnimating, animationFrame, pendingFrames, framesRequested>>

mapVars == <<busPositionHistory, currentInterpolatedPositions, busMarkers, busTrails,
             currentTime, lastAnimationTime, historicalDataCount,
             isProcessingHistoricalData>>

\* What the last frame did, kept while the frame is the last step of the data path.
frameVars == <<interpPath, interpStored, cleanupRemoved>>

appVars == <<lastBusPositions, recentArrivals, isAudioStarted, blastTimers, blasts,
             recentArrivalEvents, emitted, detectedFrom>>

netVars == <<pendingHist, burstIndex, connects, lastBroadcastAt>>

\* A call of a helper method on its own.
calcVars == <<callArgs, callResult>>

\* The server's HistoricalDataCache.
serverVars == <<cacheEntries, wsClients, sent, connectedAt, addedAt>>

\* The sockets of the server and what it sent on them.
wireVars == <<wsClients, sent, connectedAt, addedAt>>

\* What processDelayUpdates and its timers write.
delayVars == <<stopDelays, delayTimers, recentDelayEvents, lastUpdates>>

\* The routes of the audio manager and the grouping the app remembers.
audioVars == <<routes, routeBusData>>

\* The WebSocket client of the page.
clientVars == <<clientWs, sockets, isConnected, reconnectAttempts, status, reconnectTimers,
                disconnectCalled, attemptsSinceOpen>>

\* The canvas layer of the stops.
stopsVars == <<animations, isAnimating, animationFrame, pendingFrames, framesRequested>>

\* Both: what the data path of the page leaves alone.
sideVars == <<clientVars, stopsVars>>

NoBatch == [b \in Buses |-> Absent]
NoCall == [op |-> "none"]
NoResult == [done |-> FALSE]

NoPos == [has |-> FALSE]
NoTime == -1
NoRecord == [has |-> FALSE]
NoRoute == [exists |-> FALSE]
NoInterval == [intervalMs |-> 0]
NoSocket == 0
NoFrame == 0

\* The sockets clients open to the server, one per connection.
Sockets == {"ws1", "ws2"}

(***************************************************************************)
(* InterpolatedMapManager.                                                 *)
(***************************************************************************)
\* Numeric route ids: a trailing zero is stripped; 0 is falsy and passes through.
CleanRouteId(routeId) ==
  IF routeId = 0 THEN routeId
  ELSE IF routeId % 10 = 0 THEN routeId \div 10 ELSE routeId

\* A buffer that refuses the new sample once it is full.
PushDropNewest(history, sample) ==
  IF Len(history) >= HISTORY_CAP THEN history ELSE Append(history, sample)

\* history.push(sample); if (history.length > 100) history.shift()
PushSample(history, sample) ==
  LET pushed == Append(history, sample)
  IN IF Len(pushed) > HISTORY_CAP THEN Tail(pushed) ELSE pushed

\* The sample updateBuses builds for a bus reported at position lat.
MakeSample(busId, lat, bearing, timestamp) ==
  [lat |-> R(lat), bearing |-> R(bearing),
   routeId |-> CleanRouteId(RawRouteOf(busId)), timestamp |-> timestamp]

\* timestamp - (HISTORICAL_SPREAD_MS - historicalDataCount * HISTORICAL_INTERVAL_MS)
AdjustedTimestamp(timestamp, count) ==
  timestamp - (HISTORICAL_SPREAD_MS - (count * HISTORICAL_INTERVAL_MS))

\* An interpolation that covers the distance twice as fast.
LerpOvershoot(a, b, t) == RAdd(a, RMul(RSub(b, a), RAdd(t, t)))

\* a + (b - a) * t
Lerp(a, b, t) == RAdd(a, RMul(RSub(b, a), t))

\* x % 360 for a rational x >= 0
RMod360(x) == RSub(x, R(360 * RFloor(RDiv(x, R(360)))))

\* JavaScript's remainder of an exact rational (sign of the dividend)
RJsMod360(x) ==
  IF x.n >= 0 THEN RMod360(x)
  ELSE LET m == RMod360(RAbs(x)) IN [n |-> -m.n, d |-> m.d]

\* A bearing interpolated like a coordinate.
LerpAngleLinear(a, b, t) == Lerp(a, b, t)

\* ((b - a + 540) % 360) - 180, then (a + diff * t + 360) % 360
LerpAngle(a, b, t) ==
  LET diff == RSub(RJsMod360(RAdd(RSub(b, a), R(540))), R(180))
  IN RJsMod360(RAdd(RAdd(a, RMul(diff, t)), R(360)))

\* Math.max(0, Math.min(1, elapsedTime / totalTime)), 0 when totalTime is 0
Progress(elapsedTime, totalTime) ==
  IF totalTime > 0
  THEN RMax(R(0), RMin(R(1), RNorm(elapsedTime, totalTime)))
  ELSE R(0)

\* progress * progress * (3 - 2 * progress)
SmoothStep(progress) ==
  RMul(RMul(progress, progress), RSub(R(3), RMul(R(2), progress)))

\* Indices i with history[i].timestamp <= displayTime <= history[i+1].timestamp
Brackets(history, displayTime) ==
  {i \in 1..(Len(history) - 1) :
     /\ history[i].timestamp <= displayTime
     /\ history[i + 1].timestamp >= displayTime}

MinOf(S) == CHOOSE x \in S : \A y \in S : x <= y

\* A tick that takes the sample whatever its timestamp.
AnySample(sample, displayTime) == sample.timestamp >= 0

\* The tolerance test of the single-sample and most-recent-sample paths.
WithinTolerance(sample, displayTime) ==
  sample.timestamp <= displayTime + FALLBACK_TOLERANCE_MS

\* One bus of updateInterpolatedPositions: the branch taken and the position
\* stored in currentInterpolatedPositions (has = FALSE: nothing is stored).
InterpolateAt(history, displayTime) ==
  IF Len(history) = 0 THEN [path |-> "empty", has |-> FALSE]
  ELSE IF Len(history) = 1 THEN
    IF WithinTolerance(history[1], displayTime)
    THEN [path |-> "single", has |-> TRUE, pos |-> history[1]]
    ELSE [path |-> "single", has |-> FALSE]
  ELSE IF Brackets(history, displayTime) = {} THEN
    LET mostRecent == history[Len(history)]
    IN IF WithinTolerance(mostRecent, displayTime)
       THEN [path |-> "fallback", has |-> TRUE, pos |-> mostRecent]
       ELSE [path |-> "fallback", has |-> FALSE]
  ELSE
    LET i == MinOf(Brackets(history, displayTime))
        beforePos == history[i]
        afterPos == history[i + 1]
        progress == Progress(displayTime - beforePos.timestamp,
                             afterPos.timestamp - beforePos.timestamp)
        smoothProgress == SmoothStep(progress)
    IN [path |-> "interp", has |-> TRUE,
        pos |-> [lat |-> Lerp(beforePos.lat, afterPos.lat, smoothProgress),
                 bearing |-> LerpAngle(beforePos.bearing, afterPos.bearing, smoothProgress),
                 routeId |-> beforePos.routeId,
                 timestamp |-> displayTime]]

\* updateBusTrail: a trail is drawn when at least two samples are not after displayTime.
HasTrail(history, displayTime) ==
  Cardinality({i \in 1..Len(history) : history[i].timestamp <= displayTime}) >= 2

\* while (history.length > 0 && history[0].timestamp < cutoffTime) history.shift()
RECURSIVE DropOld(_, _)
DropOld(history, cutoffTime) ==
  IF Len(history) > 0 /\ history[1].timestamp < cutoffTime
  THEN DropOld(Tail(history), cutoffTime)
  ELSE history

\* A cleanup that removes a bus only when its buffer has run empty.
OnlyEmptyHistory(history, cutoffTime) == Len(history) = 0

\* The test of cleanupOldHistory that removes the bus entirely.
NoRecentHistory(history, cutoffTime) ==
  \/ Len(history) = 0
  \/ (Len(history) > 0 /\ history[Len(history)].timestamp < cutoffTime)


(***************************************************************************)
(* SpatialIndex, along the meridian.  The bounding box is that of the      *)
(* stops; its east-west extent is taken to be at least its north-south     *)
(* extent, so the latitude term decides the number of cells to check.      *)
(***************************************************************************)
\* Metres of arc in one degree of latitude: EARTH_RADIUS_METERS * pi / 180.
ARC_METERS_PER_DEGREE == ((EARTH_RADIUS_METERS \div 1000) * 31416) \div 1800

MinStopLat == MinOf({StopLat(s) : s \in Stops})
MaxStopLat == CHOOSE x \in {StopLat(s) : s \in Stops} : \A s \in Stops : StopLat(s) <= x
LatRange == MaxStopLat - MinStopLat

\* Math.floor((lat - bounds[0][0]) / cellLatSize), clamped to the grid
GetCellCoords(lat) ==
  LET latIndex == RFloor(RDiv(RMul(RSub(lat, R(MinStopLat)), R(GRID_SIZE)), R(LatRange)))
  IN IF latIndex < 0 THEN 0
     ELSE IF latIndex > GRID_SIZE - 1 THEN GRID_SIZE - 1 ELSE latIndex

\* Math.ceil(latRadius / cellLatSize) with latRadius = radiusMeters / 111000 degrees
CellsToCheck(radiusMeters) ==
  RCeil(RNorm(radiusMeters * GRID_SIZE * ARC_METERS_PER_DEGREE, METERS_PER_DEGREE * LatRange))

\* The grid after addItem(stop, stop_lat, stop_lon) for every stop: the cell of each.
StopCells == [s \in Stops |-> GetCellCoords(R(StopLat(s)))]

\* The stops in the cells within cellsToCheck of the centre cell.
GetItemsInRadius(lat, radiusMeters) ==
  UNION {{s \in Stops : StopCells[s] \in cells} :
           cells \in {UNION {{c \in (center - reach)..(center + reach) :
                                c >= 0 /\ c < GRID_SIZE} :
                               center \in {GetCellCoords(lat)},
                               reach \in {CellsToCheck(radiusMeters)}}}}

(***************************************************************************)
(* SpatialIndex, along the equator: an index over the whole range of       *)
(* longitudes whose anchors and query points all have latitude 0.          *)
(* Coordinates are whole degrees.                                          *)
(***************************************************************************)
\* bounds = [[EquatorMinLat, EquatorMaxLat], [EquatorMinLon, EquatorMaxLon]]
EquatorMinLat == -10
EquatorMaxLat == 10
EquatorMinLon == -180
EquatorMaxLon == 180

\* stop_lon of the anchors added with addItem(0, lon, lon).
EquatorAnchors == {-179, -170, -90, 0, 90, 170, 179}

\* Math.floor((lon - bounds[1][0]) / cellLonSize), clamped to the grid
GetCellLon(lon) ==
  LET lonIndex == RFloor(RNorm((lon - EquatorMinLon) * GRID_SIZE,
                               EquatorMaxLon - EquatorMinLon))
  IN IF lonIndex < 0 THEN 0
     ELSE IF lonIndex > GRID_SIZE - 1 THEN GRID_SIZE - 1 ELSE lonIndex

\* Math.ceil(Math.max(latRadius / cellLatSize, lonRadius / cellLonSize)) at
\* latitude 0, where cos(lat) = 1 and lonRadius = latRadius = radiusMeters / 111000
CellsToCheckOnEquator(radiusMeters) ==
  RCeil(RMax(RNorm(radiusMeters * GRID_SIZE,
                   METERS_PER_DEGREE * (EquatorMaxLat - EquatorMinLat)),
             RNorm(radiusMeters * GRID_SIZE,
                   METERS_PER_DEGREE * (EquatorMaxLon - EquatorMinLon))))

\* getItemsInRadius(0, lon, radiusMeters): the cell of latitude 0 is the
\* centre cell of every query, so the longitude index decides.
GetItemsInRadiusOnEquator(lon, radiusMeters) ==
  LET center == GetCellLon(lon)
      reach == CellsToCheckOnEquator(radiusMeters)
      cells == {c \in (center - reach)..(center + reach) : c >= 0 /\ c < GRID_SIZE}
  IN {a \in EquatorAnchors : GetCellLon(a) \in cells}

\* calculateDistance(0, lon1, 0, lon2): R * c, where the central angle c of
\* two points of the equator is their difference of longitude taken the
\* short way round.
DistanceOnEquator(lon1, lon2) ==
  LET d == Abs(lon1 - lon2)
  IN ARC_METERS_PER_DEGREE * (IF d > 180 THEN 360 - d ELSE d)

(***************************************************************************)
(* BusSynthApp: arrival detection.                                         *)
(***************************************************************************)
\* Haversine distance of two points of one meridian.
CalculateDistance(lat1, lat2) == RAbs(RSub(lat1, lat2))

\* A detector whose debounce test passes as soon as any time has gone by.
DebounceWithoutWindow(lastArrival, nowT) ==
  \/ lastArrival = NoTime
  \/ nowT - lastArrival > 0

\* A detector that does not test the proximity threshold.
TriggerWithoutProximity(distanceToStop, lastDistanceToStop, lastArrival, nowT) ==
  /\ RLt(distanceToStop, lastDistanceToStop)
  /\ RLt(distanceToStop, RSub(lastDistanceToStop, R(APPROACH_THRESHOLD_METERS)))
  /\ \/ lastArrival = NoTime
     \/ nowT - lastArrival > ARRIVAL_DEBOUNCE_MS

\* lastArrival ? (now - lastArrival) : Infinity, compared with the debounce time
DebounceElapsed(lastArrival, nowT) ==
  \/ lastArrival = NoTime
  \/ nowT - lastArrival > ARRIVAL_DEBOUNCE_MS

\* The condition under which detectStopArrivals emits an arrival.
ShouldTrigger(distanceToStop, lastDistanceToStop, lastArrival, nowT) ==
  /\ RLt(distanceToStop, R(STOP_THRESHOLD_METERS))
  /\ RLt(distanceToStop, lastDistanceToStop)
  /\ RLt(distanceToStop, RSub(lastDistanceToStop, R(APPROACH_THRESHOLD_METERS)))
  /\ DebounceElapsed(lastArrival, nowT)

\* An interpolation that measures the crossing from the current position's end.
InterpolateFromCurrentEnd(lastPos, currentPos, stopLat, threshold) ==
  LET lastDistance == CalculateDistance(lastPos.lat, stopLat)
      currentDistance == CalculateDistance(currentPos.lat, stopLat)
      totalDistanceChange == RSub(lastDistance, currentDistance)
  IN IF RLe(lastDistance, threshold) THEN R(lastPos.timestamp)
     ELSE IF RLe(totalDistanceChange, R(0)) THEN R(currentPos.timestamp)
     ELSE RAdd(R(lastPos.timestamp),
               RMul(RDiv(RSub(threshold, currentDistance), totalDistanceChange),
                    R(currentPos.timestamp - lastPos.timestamp)))

\* The linear interpolation without the early return for a previous
\* position inside the threshold.
InterpolateWithoutEarlyReturn(lastPos, currentPos, stopLat, threshold) ==
  LET lastDistance == CalculateDistance(lastPos.lat, stopLat)
      currentDistance == CalculateDistance(currentPos.lat, stopLat)
      totalDistanceChange == RSub(lastDistance, currentDistance)
      distanceToThreshold == RSub(lastDistance, threshold)
  IN IF RLe(totalDistanceChange, R(0)) THEN R(currentPos.timestamp)
     ELSE RAdd(R(lastPos.timestamp),
               RMul(RDiv(distanceToThreshold, totalDistanceChange),
                    R(currentPos.timestamp - lastPos.timestamp)))

InterpolateArrivalTime(lastPos, currentPos, stopLat, threshold) ==
  LET lastDistance == CalculateDistance(lastPos.lat, stopLat)
      currentDistance == CalculateDistance(currentPos.lat, stopLat)
      totalDistanceChange == RSub(lastDistance, currentDistance)
      distanceToThreshold == RSub(lastDistance, threshold)
  IN IF RLe(lastDistance, threshold) THEN R(lastPos.timestamp)
     ELSE IF RLe(totalDistanceChange, R(0)) THEN R(currentPos.timestamp)
     ELSE LET timeFraction == RDiv(distanceToThreshold, totalDistanceChange)
              timeSpan == currentPos.timestamp - lastPos.timestamp
          IN RAdd(R(lastPos.timestamp), RMul(timeFraction, R(timeSpan)))

\* Math.max(0.5, 1 - distanceToStop / threshold)
Intensity(distanceToStop) ==
  RMax([n |-> 1, d |-> 2], RSub(R(1), RDiv(distanceToStop, R(STOP_THRESHOLD_METERS))))

\* A cleanup whose cutoff is the current time.
CleanupWithoutMargin(arrivals, currentT) ==
  [k \in DOMAIN arrivals |->
     IF arrivals[k] # NoTime /\ arrivals[k] < currentT THEN NoTime ELSE arrivals[k]]

\* for (const [key, timestamp] of recentArrivals) if (timestamp < cutoffTime) delete
CleanupOldArrivals(arrivals, currentT) ==
  LET cutoffTime == currentT - ARRIVAL_DEBOUNCE_MS * 2
  IN [k \in DOMAIN arrivals |->
        IF arrivals[k] # NoTime /\ arrivals[k] < cutoffTime THEN NoTime ELSE arrivals[k]]

\* recentArrivalEvents.unshift(event); if (length > maxEventHistory) pop()
AddArrivalEvent(events, event) ==
  LET added == <<event>> \o events
  IN IF Len(added) > MAX_EVENT_HISTORY THEN SubSeq(added, 1, Len(added) - 1) ELSE added

\* A scheduler that drops an arrival only when it is more than a minute old.
TooOldAfterDisplayLag(ageMs) == RLt(R(DISPLAY_LAG_MS), ageMs)

\* The test of scheduleArrivalBlastAtTime that drops an arrival.
TooOld(ageMs) == RLt(R(MAX_BLAST_DELAY_MS), ageMs)

\* scheduleArrivalBlastAtTime on the detector's working state st.
ScheduleArrivalBlastAtTime(st, busId, routeId, delay, stopId, arrivalTime, nowT) ==
  LET ageMs == RSub(R(nowT), arrivalTime)
      playDelayMs == RMin(ageMs, R(MAX_PLAY_DELAY_MS))
      call == [busId |-> busId, routeId |-> routeId, stopId |-> stopId, delay |-> delay,
               ageMs |-> ageMs, at |-> nowT]
  IN IF TooOld(ageMs) THEN st
     ELSE LET st1 == [st EXCEPT !.ev = AddArrivalEvent(st.ev,
                         [timestamp |-> nowT, routeId |-> routeId, stopId |-> stopId,
                          delay |-> delay, ageMs |-> ageMs])]
          IN IF RLe(playDelayMs, R(IMMEDIATE_PLAY_MS))
             THEN [st1 EXCEPT !.bl = st1.bl \cup {call}]
             ELSE [st1 EXCEPT !.tm = st1.tm \cup {[call |-> call, playDelayMs |-> playDelayMs]}]

\* A lookup that uses the record of the stop however old it is.
ActualDelayWithoutExpiry(delayData, routeId, nowT) ==
  IF delayData.has /\ delayData.routeId = routeId THEN delayData.delay ELSE 0

\* actualDelay of detectStopArrivals: the stored delay of the stop when its
\* route matches and it was recorded less than an hour ago, else 0.
ActualDelay(delayData, routeId, nowT) ==
  IF delayData.has /\ delayData.routeId = routeId
       /\ nowT - delayData.recordedAt * 1000 < DELAY_DATA_MAX_AGE_S * 1000
  THEN delayData.delay ELSE 0

\* One stop of nearbyStops.forEach for one bus.
DetectStop(st, busId, pos, lastPos, stopId, nowT, audio) ==
  LET stopLat == R(StopLat(stopId))
      distanceToStop == CalculateDistance(pos.lat, stopLat)
      lastDistanceToStop == CalculateDistance(lastPos.lat, stopLat)
      lastArrival == st.ra[<<busId, stopId>>]
  IN IF ShouldTrigger(distanceToStop, lastDistanceToStop, lastArrival, nowT)
     THEN LET actualArrivalTime == InterpolateArrivalTime(
                 lastPos, [lat |-> pos.lat, timestamp |-> nowT], stopLat,
                 R(STOP_THRESHOLD_METERS))
              routeId == CleanRouteId(pos.routeId)
              st1 == [st EXCEPT
                        !.ra[<<busId, stopId>>] = nowT,
                        !.em = st.em \cup
                          {[busId |-> busId, stopId |-> stopId, at |-> nowT,
                            prevLat |-> lastPos.lat, prevTimestamp |-> lastPos.timestamp,
                            curLat |-> pos.lat,
                            distancePrev |-> lastDistanceToStop, distanceNow |-> distanceToStop,
                            crossingTime |-> actualArrivalTime,
                            intensity |-> Intensity(distanceToStop),
                            scheduled |-> audio /\ CleanRouteId(pos.routeId) # 0,
                            entryDeleted |-> lastArrival = NoTime]}]
          IN IF audio /\ routeId # 0
             THEN ScheduleArrivalBlastAtTime(st1, busId, routeId,
                                             ActualDelay(st.sd[stopId], routeId, nowT),
                                             stopId, actualArrivalTime, nowT)
             ELSE st1
     ELSE st

StopOrder == <<"s1", "s2", "s3", "s4">>

RECURSIVE DetectStops(_, _, _, _, _, _, _)
DetectStops(st, busId, pos, lastPos, nearbyStops, nowT, audio) ==
  IF nearbyStops = <<>> THEN st
  ELSE CHOOSE result \in
         {DetectStops(st1, busId, pos, lastPos, rest, nowT, audio) :
            st1 \in {DetectStop(st, busId, pos, lastPos, Head(nearbyStops), nowT, audio)},
            rest \in {Tail(nearbyStops)}} : TRUE

\* One bus of buses.forEach; cleanup: Math.random() < 0.001 for this bus.
DetectBus(st, busId, pos, nowT, audio, cleanup) ==
  LET lastPos == st.lbp[busId]
      st1 == [st EXCEPT !.lbp[busId] = [has |-> TRUE, lat |-> pos.lat, timestamp |-> nowT]]
      near == GetItemsInRadius(pos.lat, STOP_THRESHOLD_METERS * SEARCH_RADIUS_MULTIPLIER)
      nearbyStops == SelectSeq(StopOrder, LAMBDA s : s \in near)
  IN IF ~lastPos.has THEN st1
     ELSE CHOOSE result \in
            UNION {{IF cleanup THEN [st2 EXCEPT !.ra = CleanupOldArrivals(st2.ra, nowT)]
                    ELSE st2 :
                      st2 \in {DetectStops(st1, busId, pos, lastPos, stops, nowT, audio)}} :
                     stops \in {nearbyStops}} : TRUE

BusOrder == <<"b1", "b2">>

\* detectStopArrivals(laggedBuses): lagged is currentInterpolatedPositions,
\* cleanupFor the buses after which the random cleanup fires.
RECURSIVE DetectStopArrivals(_, _, _, _, _, _)
DetectStopArrivals(st, buses, lagged, nowT, audio, cleanupFor) ==
  IF buses = <<>> THEN st
  ELSE LET busId == Head(buses)
       IN CHOOSE result \in
            {DetectStopArrivals(st1, rest, lagged, nowT, audio, cleanupFor) :
               st1 \in {IF lagged[busId].has
                        THEN DetectBus(st, busId, lagged[busId].pos, nowT, audio,
                                       busId \in cleanupFor)
                        ELSE st},
               rest \in {Tail(buses)}} : TRUE


(***************************************************************************)
(* Inputs.                                                                 *)
(***************************************************************************)
\* position.bearing reported at a position.
BearingAt(lat) == IF lat = 110 THEN 350 ELSE 10

\* data.buses of one message: for each bus its position (metres of arc), or Absent.
Batches == [Buses -> {110, 50, Absent}]
\* Replayed cache entries: the bus shuttles between the two stops, 110 m and
\* 50 m from the first.
ReplayBatches == {batch \in Batches : batch["b1"] # Absent /\ batch["b2"] = Absent}
\* Live broadcasts.
BroadcastBatches == {batch \in Batches : batch["b1"] = 50 /\ batch["b2"] = Absent}
\* The history specification follows one bus at one place.
HistoryBatches == {batch \in Batches : batch["b1"] \in {110, Absent} /\ batch["b2"] = Absent}

\* The clock step of the history specification: every fourth broadcast.
HistoryStep == 4 * BROADCAST_INTERVAL_MS

(***************************************************************************)
(* BusSynthApp.processDelayUpdates.  Times of the feed are in seconds; the *)
(* clock of the model only takes whole seconds.                            *)
(***************************************************************************)
\* A forEach callback that records every delay, however small.
ProcessDelayUpdateAnyDelay(st, update, i, nowT, audio) ==
  IF update.delay = 0 \/ CleanRouteId(update.rawRouteId) = 0 THEN st
  ELSE [st EXCEPT !.sd[update.stopId] =
          [has |-> TRUE, delay |-> Abs(update.delay),
           routeId |-> CleanRouteId(update.rawRouteId),
           timestamp |-> IF update.time # 0 THEN update.time ELSE nowT \div 1000,
           recordedAt |-> nowT \div 1000]]

\* One update of updates.forEach, the i-th of the message: delay is
\* arrival.delay, time is arrival.time (0: missing), rawRouteId is
\* trip.route_id (0: missing).
ProcessDelayUpdate(st, update, i, nowT, audio) ==
  LET currentTimeSec == nowT \div 1000
      delay == Abs(update.delay)
      timestamp == IF update.time # 0 THEN update.time ELSE currentTimeSec
      routeId == CleanRouteId(update.rawRouteId)
      st1 == IF delay > MIN_DELAY_SECONDS /\ routeId # 0
             THEN [st EXCEPT !.sd[update.stopId] =
                     [has |-> TRUE, delay |-> delay, routeId |-> routeId,
                      timestamp |-> timestamp, recordedAt |-> currentTimeSec]]
             ELSE st
  IN IF update.delay = 0 THEN st
     ELSE IF timestamp > currentTimeSec /\ delay > MIN_DELAY_SECONDS /\ routeId # 0 /\ audio
          THEN [st1 EXCEPT !.tm = st1.tm \cup
                  {[routeId |-> routeId, delay |-> delay, stopId |-> update.stopId,
                    fireAt |-> nowT + (timestamp - currentTimeSec) * 1000,
                    scheduledAt |-> nowT, index |-> i]}]
          ELSE st1

RECURSIVE ProcessDelayUpdatesFrom(_, _, _, _, _)
ProcessDelayUpdatesFrom(st, updates, i, nowT, audio) ==
  IF i > Len(updates) THEN st
  ELSE ProcessDelayUpdatesFrom(ProcessDelayUpdate(st, updates[i], i, nowT, audio),
                               updates, i + 1, nowT, audio)

\* for (const [stopId, delayData] of stopDelays) if (recordedAt < cutoffTime) delete
CleanupOldDelayRecords(delays, currentTimeSec) ==
  [s \in Stops |->
     IF delays[s].has /\ delays[s].recordedAt < currentTimeSec - DELAY_DATA_MAX_AGE_S
     THEN NoRecord ELSE delays[s]]

\* processDelayUpdates(updates); cleanup is the outcome of Math.random() < 0.1
ProcessDelayUpdates(st, updates, nowT, audio, cleanup) ==
  IF Len(updates) = 0 THEN st
  ELSE CHOOSE result \in
         {IF cleanup THEN [st1 EXCEPT !.sd = CleanupOldDelayRecords(st1.sd, nowT \div 1000)]
          ELSE st1 :
            st1 \in {ProcessDelayUpdatesFrom(st, updates, 1, nowT, audio)}} : TRUE

\* recentDelayEvents.unshift(event); if (length > maxEventHistory) pop()
AddDelayEvent(events, event) ==
  LET unshifted == <<event>> \o events
  IN IF Len(unshifted) > MAX_EVENT_HISTORY
     THEN SubSeq(unshifted, 1, Len(unshifted) - 1) ELSE unshifted

(***************************************************************************)
(* RoutePulseAudioManager: the pulse timer of every route.                 *)
(***************************************************************************)
\* The route ids the positions of the buses are grouped under.
RouteIds == {CleanRouteId(RawRouteOf(b)) : b \in Buses}

\* mapRange(value, inputRange, outputRange)
MapRange(value, in0, in1, out0, out1) ==
  LET clampedValue == RMax(in0, RMin(in1, value))
      normalized == RDiv(RSub(clampedValue, in0), RSub(in1, in0))
  IN RAdd(out0, RMul(normalized, RSub(out1, out0)))

\* pulseRate of updateRoute and resumeAllAudio, in Hz
PulseRate(busCount) ==
  MapRange(RMin(R(busCount), R(MAX_BUSES_PER_ROUTE)), R(1), R(MAX_BUSES_PER_ROUTE),
           PULSE_RATE_MIN_HZ, PULSE_RATE_MAX_HZ)

\* setInterval(..., 1000 / pulseRate): the timeout is taken as a whole number of ms
PulseIntervalMs(busCount) == RFloor(RDiv(R(1000), PulseRate(busCount)))

\* setInterval at nowT
SetPulseInterval(busCount, nowT) ==
  [intervalMs |-> PulseIntervalMs(busCount), nextDue |-> nowT + PulseIntervalMs(busCount)]

\* createRouteAudio
NewRoute ==
  [exists |-> TRUE, isPlaying |-> FALSE, busCount |-> 0, pulseInterval |-> NoInterval,
   lastPulseTime |-> 0, playingSince |-> NoTime]

\* updateRoute(routeId, buses) while the manager is started; playingSince is
\* when isPlaying last became true.
UpdateRoute(route, busCount, nowT) ==
  LET r0 == IF route.exists THEN route ELSE NewRoute
      r1 == [r0 EXCEPT !.busCount = busCount]
  IN IF busCount = 0
     THEN IF r1.isPlaying
          THEN [r1 EXCEPT !.pulseInterval = NoInterval, !.isPlaying = FALSE,
                          !.playingSince = NoTime]
          ELSE r1
     ELSE [r1 EXCEPT !.pulseInterval = SetPulseInterval(busCount, nowT),
                     !.isPlaying = TRUE,
                     !.playingSince = IF r1.isPlaying THEN r1.playingSince ELSE nowT]

\* getCurrentLaggedRouteData(): the number of buses of every route
LaggedRouteCounts(positions) ==
  [r \in RouteIds |->
     Cardinality({b \in Buses : positions[b].has /\ positions[b].pos.routeId = r})]

\* The audio part of processBusUpdate: updateRoute for every route of the
\* lagged data, then updateRoute(routeId, []) for the routes of the previous
\* routeBusData that are gone.
UpdateAudioRoutes(rts, previous, counts, audio, nowT) ==
  IF audio /\ \E r \in RouteIds : counts[r] > 0
  THEN [r \in RouteIds |->
          IF counts[r] > 0 THEN UpdateRoute(rts[r], counts[r], nowT)
          ELSE IF r \in previous THEN UpdateRoute(rts[r], 0, nowT)
          ELSE rts[r]]
  ELSE rts

\* resumeAllAudio
ResumeAllAudio(rts, nowT) ==
  [r \in RouteIds |->
     IF rts[r].exists /\ ~rts[r].isPlaying /\ rts[r].busCount > 0
     THEN [rts[r] EXCEPT !.pulseInterval = SetPulseInterval(rts[r].busCount, nowT),
                         !.isPlaying = TRUE, !.playingSince = nowT]
     ELSE rts[r]]

\* triggerPulse(route): the envelope is played unless the last one began
\* less than 0.05 s ago; audioContext.currentTime runs with Date.now().
TriggerPulse(route, nowT) ==
  IF RLt(RDiv(R(nowT - route.lastPulseTime), R(1000)), PULSE_OVERLAP_SECONDS) THEN route
  ELSE [route EXCEPT !.lastPulseTime = nowT]

\* triggerDelayEvent(routeId, delayIntensity, lat, lon): with the manager
\* started and the route playing, the first statement of the try block reads
\* AUDIO_CONSTANTS.TIMING.DISRUPTION_MAX_SECONDS; SHARED_CONSTANTS.AUDIO has
\* no TIMING, the read throws a TypeError and the catch logs it.
TriggerDelayEvent(rts, routeId, delayIntensity, audio) ==
  IF ~audio THEN rts
  ELSE IF routeId \notin RouteIds THEN rts
  ELSE IF ~rts[routeId].exists \/ ~rts[routeId].isPlaying THEN rts
  ELSE rts

(***************************************************************************)
(* Handlers.                                                               *)
(***************************************************************************)
\* The objects after initialize().
InitObjects ==
  /\ now = StartTime
  /\ burstIndex = 0
  /\ lastBroadcastAt = NoTime
  /\ busPositionHistory = [b \in Buses |-> <<>>]
  /\ currentInterpolatedPositions = [b \in Buses |-> NoPos]
  /\ busMarkers = {}
  /\ busTrails = {}
  /\ currentTime = StartTime
  /\ lastAnimationTime = StartTime
  /\ historicalDataCount = 0
  /\ isProcessingHistoricalData = FALSE
  /\ lastBusPositions = [b \in Buses |-> NoPos]
  /\ recentArrivals = [k \in Buses \X Stops |-> NoTime]
  /\ isAudioStarted = FALSE
  /\ blastTimers = {}
  /\ blasts = {}
  /\ recentArrivalEvents = <<>>
  /\ emitted = {}
  /\ detectedFrom = [b \in Buses |-> NoPos]
  /\ interpPath = [b \in Buses |-> "empty"]
  /\ interpStored = {}
  /\ cleanupRemoved = {}
  /\ lastOp = "init"
  /\ lastBatch = NoBatch
  /\ cacheEntries = <<>>
  /\ wsClients = {}
  /\ sent = [ws \in Sockets |-> <<>>]
  /\ connectedAt = [ws \in Sockets |-> NoTime]
  /\ addedAt = {}
  /\ stopDelays = [s \in Stops |-> NoRecord]
  /\ delayTimers = {}
  /\ recentDelayEvents = <<>>
  /\ lastUpdates = <<>>
  /\ routes = [r \in RouteIds |-> NoRoute]
  /\ routeBusData = {}
  /\ clientWs = NoSocket
  /\ sockets = <<>>
  /\ isConnected = FALSE
  /\ reconnectAttempts = 0
  /\ status = "none"
  /\ reconnectTimers = {}
  /\ disconnectCalled = FALSE
  /\ attemptsSinceOpen = 0
  /\ animations = [s \in Stops |-> NoTime]
  /\ isAnimating = FALSE
  /\ animationFrame = NoFrame
  /\ pendingFrames = {}
  /\ framesRequested = 0

\* The managers after initialize(), no helper called on its own.
InitManagers ==
  /\ InitObjects
  /\ callArgs = NoCall
  /\ callResult = NoResult

\* After initialize(): the managers exist, the socket is not open yet.
Init ==
  /\ InitManagers
  /\ pendingHist = 0
  /\ connects = 0

\* After initialize() and the first open of the socket: the server has
\* queued the replay of its cache.
InitConnected ==
  /\ InitManagers
  /\ pendingHist \in 0..MaxHistEntries
  /\ connects = 1

\* The frame is no longer the last step.
FrameOver ==
  /\ interpPath' = [b \in Buses |-> "empty"]
  /\ interpStored' = {}
  /\ cleanupRemoved' = {}

\* Time passes between two handlers.
AdvanceClock(dt, maxTime) ==
  /\ now + dt <= maxTime
  /\ now' = now + dt
  /\ lastOp' = "clock"
  /\ FrameOver
  /\ UNCHANGED <<netVars, mapVars, appVars, calcVars, sideVars, lastBatch, serverVars, delayVars, audioVars>>

\* wss.on('connection'): the server replays entries cache entries, each as one message.
Connect(entries) ==
  /\ connects < MaxConnects
  /\ connects' = connects + 1
  /\ pendingHist' = entries
  /\ burstIndex' = 0
  /\ lastOp' = "connect"
  /\ FrameOver
  /\ UNCHANGED <<now, lastBroadcastAt, mapVars, appVars, calcVars, sideVars, lastBatch, serverVars, delayVars, audioVars>>

\* A historical branch that, like the real-time one, drops the buses missing
\* from the batch.
UpdateBusesHistoricalDroppingMissing(batch) ==
  /\ isProcessingHistoricalData' = TRUE
  /\ historicalDataCount' = historicalDataCount + 1
  /\ busPositionHistory' =
       [b \in Buses |->
          IF batch[b] # Absent
          THEN PushSample(busPositionHistory[b],
                          MakeSample(b, batch[b], BearingAt(batch[b]),
                                     AdjustedTimestamp(now, historicalDataCount + 1)))
          ELSE <<>>]
  /\ UNCHANGED <<currentInterpolatedPositions, busMarkers, busTrails, currentTime,
                 lastAnimationTime>>

\* updateBuses(buses, true)
UpdateBusesHistorical(batch) ==
  LET count == historicalDataCount + 1
      adjustedTimestamp == AdjustedTimestamp(now, count)
  IN /\ isProcessingHistoricalData' = TRUE
     /\ historicalDataCount' = count
     /\ busPositionHistory' =
          [b \in Buses |->
             IF batch[b] # Absent
             THEN PushSample(busPositionHistory[b],
                             MakeSample(b, batch[b], BearingAt(batch[b]), adjustedTimestamp))
             ELSE busPositionHistory[b]]
     /\ UNCHANGED <<currentInterpolatedPositions, busMarkers, busTrails, currentTime,
                    lastAnimationTime>>

\* processDelayUpdates(data.updates) of handleWebSocketMessage
HandleDelayUpdates(updates, cleanup) ==
  \E d \in {ProcessDelayUpdates([sd |-> stopDelays, tm |-> delayTimers], updates, now,
                                 isAudioStarted, cleanup)} :
    /\ stopDelays' = d.sd
    /\ delayTimers' = d.tm
    /\ lastUpdates' = updates
    /\ UNCHANGED recentDelayEvents

\* handleWebSocketMessage of a message with isHistorical = true
HandleHistoricalWith(batch, updates, cleanup) ==
  /\ connects > 0
  /\ pendingHist > 0
  /\ pendingHist' = pendingHist - 1
  /\ burstIndex' = burstIndex + 1
  /\ UpdateBusesHistorical(batch)
  /\ HandleDelayUpdates(updates, cleanup)
  /\ lastOp' = "historical"
  /\ lastBatch' = batch
  /\ FrameOver
  /\ UNCHANGED <<now, connects, lastBroadcastAt, appVars, calcVars, sideVars, serverVars, audioVars>>

\* The same, of a message without trip updates.
HandleHistorical(batch) == HandleHistoricalWith(batch, <<>>, FALSE)

\* An update that keeps the buffers of the buses missing from the message.
HistoryKeepingMissing(history, batch, timestamp) ==
  [b \in Buses |->
     IF batch[b] # Absent
     THEN PushSample(history[b], MakeSample(b, batch[b], BearingAt(batch[b]), timestamp))
     ELSE history[b]]

\* The history buffers after the real-time branch of updateBuses(buses, false).
HistoryAfterRealTime(history, batch, timestamp) ==
  [b \in Buses |->
     IF batch[b] # Absent
     THEN PushSample(history[b], MakeSample(b, batch[b], BearingAt(batch[b]), timestamp))
     ELSE <<>>]

\* A handler that gives the detector the positions of the message itself.
RawBuses(batch, positions) ==
  [b \in Buses |->
     IF batch[b] = Absent THEN NoPos
     ELSE [has |-> TRUE, pos |-> MakeSample(b, batch[b], BearingAt(batch[b]), 0)]]

\* laggedBuses of processBusUpdate: the entries of getCurrentLaggedPositions()
\* once updateBuses has removed the buses missing from the message.
LaggedBuses(batch, positions) ==
  [b \in Buses |-> IF batch[b] = Absent THEN NoPos ELSE positions[b]]

\* A removal that leaves the interpolated position of the bus in place.
RemoveBusKeepingPosition(positions, removed) == positions

\* removeBus, for every bus of removed: currentInterpolatedPositions.delete(busId)
RemoveBusPositions(positions, removed) ==
  [b \in Buses |-> IF b \in removed THEN NoPos ELSE positions[b]]

\* handleWebSocketMessage of a real-time message: updateBuses,
\* detectStopArrivals on the lagged positions, updateRoute for the lagged
\* routes, then processDelayUpdates.
HandleRealTimeWith(batch, updates, cleanupFor, cleanup) ==
  LET removed == {b \in Buses : batch[b] = Absent}
      lagged == LaggedBuses(batch, currentInterpolatedPositions)
      st0 == [lbp |-> lastBusPositions, ra |-> recentArrivals, em |-> emitted,
              bl |-> blasts, tm |-> blastTimers, ev |-> recentArrivalEvents,
              sd |-> stopDelays]
  IN \E st \in {DetectStopArrivals(st0, BusOrder, lagged, now, isAudioStarted, cleanupFor)} :
     /\ connects > 0
     /\ pendingHist = 0
     /\ (lastBroadcastAt = NoTime \/ now - lastBroadcastAt >= BROADCAST_INTERVAL_MS)
     /\ lastBroadcastAt' = now
     /\ isProcessingHistoricalData' = FALSE
     /\ busPositionHistory' = HistoryAfterRealTime(busPositionHistory, batch, now)
     /\ currentInterpolatedPositions' =
          RemoveBusPositions(currentInterpolatedPositions, removed)
     /\ busMarkers' = busMarkers \ removed
     /\ busTrails' = busTrails \ removed
     /\ lastBusPositions' = st.lbp
     /\ recentArrivals' = st.ra
     /\ emitted' = st.em
     /\ detectedFrom' = lastBusPositions
     /\ blasts' = st.bl
     /\ blastTimers' = st.tm
     /\ recentArrivalEvents' = st.ev
     /\ \E counts \in {LaggedRouteCounts(currentInterpolatedPositions')} :
          /\ routes' = UpdateAudioRoutes(routes, routeBusData, counts, isAudioStarted, now)
          /\ routeBusData' = {r \in RouteIds : counts[r] > 0}
     /\ HandleDelayUpdates(updates, cleanup)
     /\ lastOp' = "realtime"
     /\ lastBatch' = batch
     /\ FrameOver
     /\ UNCHANGED <<now, pendingHist, burstIndex, connects, currentTime, lastAnimationTime,
                    historicalDataCount, isAudioStarted, calcVars, sideVars, serverVars>>

\* The same, of a message without trip updates.
HandleRealTime(batch, cleanupFor) == HandleRealTimeWith(batch, <<>>, cleanupFor, FALSE)

\* A loop in which the clock has moved on, by a broadcast interval, for every
\* bus after the first.
DisplayTimePerBus(currentT, busId) ==
  IF busId = Head(BusOrder) THEN currentT - DISPLAY_LAG_MS
  ELSE currentT + BROADCAST_INTERVAL_MS - DISPLAY_LAG_MS

\* displayTime as the forEach callback of updateInterpolatedPositions sees it
\* for a bus: const displayTime = this.currentTime - this.displayLag, computed
\* once before the loop.
DisplayTimeFor(currentT, busId) == currentT - DISPLAY_LAG_MS

\* One frame of the animation loop: gap detection, updateInterpolatedPositions,
\* cleanupOldHistory.
Animate ==
  LET cutoffTime == now - MAX_HISTORY_AGE_MS
      trailsAtGap == IF now - lastAnimationTime > MAX_TIME_GAP_MS THEN {} ELSE busTrails
  IN \E result \in {[b \in Buses |-> InterpolateAt(busPositionHistory[b],
                                                    DisplayTimeFor(now, b))]},
        pruned \in {[b \in Buses |-> DropOld(busPositionHistory[b], cutoffTime)]} :
     \E removed \in {{b \in Buses : Len(busPositionHistory[b]) > 0
                                     /\ NoRecentHistory(pruned[b], cutoffTime)}} :
       /\ currentTime' = now
       /\ lastAnimationTime' = now
       /\ interpPath' = [b \in Buses |-> result[b].path]
       /\ interpStored' = {b \in Buses : result[b].has}
       /\ busPositionHistory' = [b \in Buses |-> IF b \in removed THEN <<>> ELSE pruned[b]]
       /\ currentInterpolatedPositions' =
            RemoveBusPositions(
              [b \in Buses |->
                 IF result[b].has THEN [has |-> TRUE, pos |-> result[b].pos]
                 ELSE currentInterpolatedPositions[b]],
              removed)
       /\ busMarkers' = (busMarkers \cup {b \in Buses : result[b].has}) \ removed
       /\ busTrails' = {b \in Buses :
                          IF result[b].has
                          THEN HasTrail(busPositionHistory[b], DisplayTimeFor(now, b))
                          ELSE b \in trailsAtGap} \ removed
       /\ cleanupRemoved' = removed
       /\ lastOp' = "animate"
       /\ UNCHANGED <<now, netVars, historicalDataCount,
                      isProcessingHistoricalData, appVars, calcVars, sideVars, lastBatch, serverVars, delayVars, audioVars>>

\* startAudio, when audioManager.initialize() succeeds
StartAudio ==
  /\ ~isAudioStarted
  /\ isAudioStarted' = TRUE
  /\ routes' = ResumeAllAudio(routes, now)
  /\ UNCHANGED <<calcVars, sideVars, lastBatch, serverVars, now, lastOp, netVars, mapVars, frameVars, lastBusPositions, recentArrivals,
                 blastTimers, blasts, recentArrivalEvents, emitted, detectedFrom, delayVars,
                 routeBusData>>

\* stopAudio: stopAllAudio clears every pulse interval and then the routes.
StopAudio ==
  /\ isAudioStarted
  /\ isAudioStarted' = FALSE
  /\ routes' = [r \in RouteIds |-> NoRoute]
  /\ UNCHANGED <<calcVars, sideVars, lastBatch, serverVars, now, lastOp, netVars, mapVars, frameVars, lastBusPositions, recentArrivals,
                 blastTimers, blasts, recentArrivalEvents, emitted, detectedFrom, delayVars,
                 routeBusData>>

\* The setTimeout callback of a delayed arrival blast: triggerArrivalBlast
\* returns at once while the audio manager is not started.
TimerDue(timer) == RLe(timer.playDelayMs, R(now - timer.call.at))

FireBlastTimer(timer) ==
  /\ timer \in blastTimers
  /\ TimerDue(timer)
  /\ blastTimers' = blastTimers \ {timer}
  /\ blasts' = IF isAudioStarted THEN blasts \cup {timer.call} ELSE blasts
  /\ UNCHANGED <<calcVars, sideVars, lastBatch, serverVars, now, lastOp, netVars, mapVars, frameVars, lastBusPositions, recentArrivals,
                 isAudioStarted, recentArrivalEvents, emitted, detectedFrom, delayVars, audioVars>>

\* The setInterval callback of the pulse of a route.
PulseDue(r) ==
  /\ routes[r].exists
  /\ routes[r].pulseInterval # NoInterval
  /\ now >= routes[r].pulseInterval.nextDue

PulseTimer(r) ==
  /\ PulseDue(r)
  /\ routes' = [routes EXCEPT
                  ![r] = [TriggerPulse(routes[r], now) EXCEPT
                            !.pulseInterval.nextDue = @ + routes[r].pulseInterval.intervalMs]]
  /\ UNCHANGED <<calcVars, sideVars, lastBatch, serverVars, now, lastOp, netVars, mapVars, frameVars,
                 appVars, delayVars, routeBusData>>

\* The setTimeout callback of a delay disruption: triggerDelayEvent, then
\* addDelayEvent.
DelayTimerDue(timer) == now >= timer.fireAt

FireDelayTimer(timer) ==
  /\ timer \in delayTimers
  /\ DelayTimerDue(timer)
  /\ delayTimers' = delayTimers \ {timer}
  /\ routes' = TriggerDelayEvent(routes, timer.routeId, timer.delay, isAudioStarted)
  /\ recentDelayEvents' =
       AddDelayEvent(recentDelayEvents,
                     [routeId |-> timer.routeId, delayAmount |-> timer.delay,
                      stopId |-> timer.stopId, at |-> now, fireAt |-> timer.fireAt,
                      scheduledAt |-> timer.scheduledAt])
  /\ lastOp' = "delayTimer"
  /\ UNCHANGED <<calcVars, sideVars, lastBatch, serverVars, now, netVars, mapVars, frameVars, appVars,
                 stopDelays, lastUpdates, routeBusData>>

MaxTime == StartTime + MaxSteps * BROADCAST_INTERVAL_MS
MaxTimeH == StartTime + MaxStepsH * HistoryStep

(***************************************************************************)
(* The page while it is visible and connected: the replay burst of a       *)
(* connection arrives before the clock moves on, requestAnimationFrame     *)
(* runs a frame at every clock value before the next message is handled,   *)
(* and a timer that is due fires before another broadcast interval passes. *)
(***************************************************************************)
Tick ==
  /\ pendingHist = 0
  /\ currentTime = now
  /\ \A timer \in blastTimers : ~TimerDue(timer)
  /\ AdvanceClock(BROADCAST_INTERVAL_MS, MaxTime)

Replay == \E batch \in ReplayBatches : HandleHistorical(batch)

Broadcast ==
  /\ currentTime = now
  /\ \E batch \in BroadcastBatches, cleanupFor \in SUBSET {"b1"} :
        HandleRealTime(batch, cleanupFor)

Frame == pendingHist = 0 /\ Animate

Next ==
  \/ Tick
  \/ Replay
  \/ Broadcast
  \/ Frame
  \/ StartAudio
  \/ StopAudio
  \/ \E timer \in blastTimers : FireBlastTimer(timer)

Spec == InitConnected /\ [][Next]_vars

(***************************************************************************)
(* The history buffers over minutes: one bus standing at one place, the    *)
(* socket reconnecting, broadcasts that may fail to come, and a frame loop *)
(* that stops while the tab is hidden.                                     *)
(***************************************************************************)
TickH ==
  /\ pendingHist = 0
  /\ AdvanceClock(HistoryStep, MaxTimeH)

Reconnect ==
  /\ pendingHist = 0
  /\ \E entries \in 0..MaxHistEntriesH : Connect(entries)

ReplayH == \E batch \in {b \in HistoryBatches : b["b1"] # Absent} : HandleHistorical(batch)

BroadcastH == \E batch \in HistoryBatches : HandleRealTime(batch, {})

FrameH == pendingHist = 0 /\ Animate

NextH ==
  \/ TickH
  \/ Reconnect
  \/ ReplayH
  \/ BroadcastH
  \/ FrameH

SpecH == Init /\ [][NextH]_vars

(***************************************************************************)
(* A bus shuttling for minutes between its two places, changing place a   *)
(* few times: the server replays a full cache, then a broadcast comes      *)
(* every interval; frames are current, audio is off.                       *)
(***************************************************************************)
MaxTimeD == StartTime + MaxStepsD * BROADCAST_INTERVAL_MS

\* Entries of a full server cache: its maximum age over the broadcast interval.
FullCacheEntries == HISTORICAL_SPREAD_MS \div BROADCAST_INTERVAL_MS

InitShuttle ==
  /\ InitManagers
  /\ pendingHist = FullCacheEntries
  /\ connects = 1

TickD ==
  /\ pendingHist = 0
  /\ currentTime = now
  /\ lastBroadcastAt = now
  /\ AdvanceClock(BROADCAST_INTERVAL_MS, MaxTimeD)

\* The changes of place a history buffer records.
Moves(history) ==
  Cardinality({i \in 1..(Len(history) - 1) : history[i].lat # history[i + 1].lat})

ReplayD ==
  \E batch \in ReplayBatches :
    /\ HandleHistorical(batch)
    /\ Moves(busPositionHistory'["b1"]) <= MaxMoves

BroadcastD ==
  /\ currentTime = now
  /\ \E batch \in ReplayBatches, cleanupFor \in SUBSET {"b1"} :
        /\ HandleRealTime(batch, cleanupFor)
        /\ Moves(busPositionHistory'["b1"]) <= MaxMoves

NextD ==
  \/ TickD
  \/ ReplayD
  \/ BroadcastD
  \/ Frame

SpecD == InitShuttle /\ [][NextD]_vars

(***************************************************************************)
(* The tab hidden: requestAnimationFrame is paused, so nothing prunes the  *)
(* buffers, while the socket keeps delivering a broadcast every interval.  *)
(***************************************************************************)
MaxTimeC == StartTime + MaxStepsC * BROADCAST_INTERVAL_MS

InitHidden ==
  /\ InitManagers
  /\ pendingHist \in 0..MaxHistEntriesH
  /\ connects = 1

TickC ==
  /\ lastBroadcastAt = now
  /\ AdvanceClock(BROADCAST_INTERVAL_MS, MaxTimeC)

ReplayC == \E batch \in {b \in HistoryBatches : b["b1"] # Absent} : HandleHistorical(batch)

BroadcastC == \E batch \in {b \in HistoryBatches : b["b1"] # Absent} : HandleRealTime(batch, {})

NextC ==
  \/ TickC
  \/ ReplayC
  \/ BroadcastC

SpecC == InitHidden /\ [][NextC]_vars

(***************************************************************************)
(* Trip updates: messages without buses whose updates name stop s1, with   *)
(* large, small and negative delays, effective times ahead of the clock,   *)
(* behind it and missing, with and without a route id.  The same update    *)
(* comes in several messages, as the feed repeats it until it is over.     *)
(***************************************************************************)
\* arrival.time of the updates that lie ahead: 20 s after the page has loaded.
FutureTimeSec == StartTime \div 1000 + 2 * (BROADCAST_INTERVAL_MS \div 1000)
PastTimeSec == StartTime \div 1000 - BROADCAST_INTERVAL_MS \div 1000

LateAhead == [stopId |-> "s1", delay |-> 60, time |-> FutureTimeSec, rawRouteId |-> 100]
EarlyBehind == [stopId |-> "s1", delay |-> -90, time |-> PastTimeSec, rawRouteId |-> 100]
SmallAhead == [stopId |-> "s1", delay |-> MIN_DELAY_SECONDS, time |-> FutureTimeSec,
               rawRouteId |-> 100]
NoRouteNow == [stopId |-> "s1", delay |-> 120, time |-> 0, rawRouteId |-> 0]
OtherStopAhead == [stopId |-> "s2", delay |-> 45, time |-> FutureTimeSec, rawRouteId |-> 3]

\* data.updates of the messages.
DelayMessages ==
  {<<LateAhead>>, <<EarlyBehind, LateAhead>>, <<LateAhead, EarlyBehind>>, <<SmallAhead>>,
   <<EarlyBehind, NoRouteNow>>, <<LateAhead, SmallAhead>>, <<OtherStopAhead>>}

MaxTimeDelay == StartTime + MaxStepsDelay * BROADCAST_INTERVAL_MS

InitDelay ==
  /\ InitManagers
  /\ pendingHist \in 0..MaxHistEntriesDelay
  /\ connects = 1

\* A timer that is due fires before the clock moves on.
TickDelay ==
  /\ pendingHist = 0
  /\ \A timer \in delayTimers : ~DelayTimerDue(timer)
  /\ AdvanceClock(BROADCAST_INTERVAL_MS, MaxTimeDelay)

ReplayDelay ==
  \E updates \in DelayMessages, cleanup \in BOOLEAN :
    HandleHistoricalWith(NoBatch, updates, cleanup)

BroadcastDelay ==
  /\ \A timer \in delayTimers : ~DelayTimerDue(timer)
  /\ \E updates \in DelayMessages, cleanup \in BOOLEAN :
       HandleRealTimeWith(NoBatch, updates, {}, cleanup)

NextDelay ==
  \/ TickDelay
  \/ ReplayDelay
  \/ BroadcastDelay
  \/ StartAudio
  \/ StopAudio
  \/ \E timer \in delayTimers : FireDelayTimer(timer)

SpecDelay == InitDelay /\ [][NextDelay]_vars

(***************************************************************************)
(* Messages with malformed entries.  The filter of updateBuses drops the   *)
(* entries without vehicle or position; the forEach callback reads         *)
(* bus.vehicle.vehicle.id and bus.vehicle.trip.route_id of every other     *)
(* entry, which throws a TypeError when vehicle.vehicle or trip is         *)
(* missing.  Nothing catches it before the try block of ws.onmessage, so   *)
(* the rest of updateBuses, of processBusUpdate and of                     *)
(* handleWebSocketMessage is not run.                                      *)
(***************************************************************************)
EntryBatches == [Buses -> {50, Absent, NoTrip}]

\* The buses updateBuses has pushed a sample for when the callback throws:
\* those before the first malformed entry, in the order of the array.
PushedBeforeThrow(batch) ==
  LET first == MinOf({i \in DOMAIN BusOrder : batch[BusOrder[i]] = NoTrip})
  IN {BusOrder[i] : i \in {j \in 1..(first - 1) : batch[BusOrder[j]] # Absent}}

HistoryBeforeThrow(history, batch, timestamp) ==
  [b \in Buses |->
     IF b \in PushedBeforeThrow(batch)
     THEN PushSample(history[b], MakeSample(b, batch[b], BearingAt(batch[b]), timestamp))
     ELSE history[b]]

\* handleWebSocketMessage of a real-time message one of whose entries makes
\* updateBuses throw.
HandleRealTimeThrowing(batch, updates) ==
  /\ \E b \in Buses : batch[b] = NoTrip
  /\ connects > 0
  /\ pendingHist = 0
  /\ (lastBroadcastAt = NoTime \/ now - lastBroadcastAt >= BROADCAST_INTERVAL_MS)
  /\ lastBroadcastAt' = now
  /\ isProcessingHistoricalData' = FALSE
  /\ busPositionHistory' = HistoryBeforeThrow(busPositionHistory, batch, now)
  /\ lastOp' = "realtime"
  /\ lastBatch' = batch
  /\ lastUpdates' = updates
  /\ FrameOver
  /\ UNCHANGED <<now, pendingHist, burstIndex, connects, currentInterpolatedPositions, busMarkers,
                 busTrails, currentTime, lastAnimationTime, historicalDataCount, appVars,
                 calcVars, sideVars, serverVars, stopDelays, delayTimers, recentDelayEvents, audioVars>>

\* The same for a message with isHistorical = true.
HandleHistoricalThrowing(batch, updates) ==
  /\ \E b \in Buses : batch[b] = NoTrip
  /\ connects > 0
  /\ pendingHist > 0
  /\ pendingHist' = pendingHist - 1
  /\ burstIndex' = burstIndex + 1
  /\ isProcessingHistoricalData' = TRUE
  /\ historicalDataCount' = historicalDataCount + 1
  /\ busPositionHistory' =
       HistoryBeforeThrow(busPositionHistory, batch,
                          AdjustedTimestamp(now, historicalDataCount + 1))
  /\ lastOp' = "historical"
  /\ lastBatch' = batch
  /\ lastUpdates' = updates
  /\ FrameOver
  /\ UNCHANGED <<now, connects, lastBroadcastAt, currentInterpolatedPositions, busMarkers,
                 busTrails, currentTime, lastAnimationTime, appVars, calcVars, sideVars, serverVars,
                 stopDelays, delayTimers, recentDelayEvents, audioVars>>

EntryUpdates == {<<>>, <<LateAhead>>}

MaxTimeEntries == StartTime + MaxStepsEntries * BROADCAST_INTERVAL_MS

InitEntries ==
  /\ InitManagers
  /\ pendingHist \in 0..MaxHistEntriesEntries
  /\ connects = 1

TickEntries ==
  /\ pendingHist = 0
  /\ AdvanceClock(BROADCAST_INTERVAL_MS, MaxTimeEntries)

ReplayEntries ==
  \E batch \in EntryBatches, updates \in EntryUpdates :
    \/ (\A b \in Buses : batch[b] # NoTrip) /\ HandleHistoricalWith(batch, updates, FALSE)
    \/ HandleHistoricalThrowing(batch, updates)

BroadcastEntries ==
  \E batch \in EntryBatches, updates \in EntryUpdates :
    \/ (\A b \in Buses : batch[b] # NoTrip) /\ HandleRealTimeWith(batch, updates, {}, FALSE)
    \/ HandleRealTimeThrowing(batch, updates)

FrameEntries == pendingHist = 0 /\ Animate

NextEntries ==
  \/ TickEntries
  \/ ReplayEntries
  \/ BroadcastEntries
  \/ FrameEntries

SpecEntries == InitEntries /\ [][NextEntries]_vars

(***************************************************************************)
(* The delay passed with an arrival blast.  Bus b2 (route 3) waits 150 m   *)
(* from stop s2 and then moves to 90 m from it; trip updates without       *)
(* arrival.time record a delay for s2, for route 3 or for route 100, in    *)
(* the first message and in the first after a pause.  Once the page gets   *)
(* no message and runs no frame for an hour (the machine sleeps), so that  *)
(* the records of before are expired when the messages come again.         *)
(***************************************************************************)
BlastBatches == {batch \in Batches : batch["b1"] = Absent /\ batch["b2"] \in {50, 110}}

SameRouteAtStop == [stopId |-> "s2", delay |-> 45, time |-> 0, rawRouteId |-> 3]
OtherRouteAtStop == [stopId |-> "s2", delay |-> 75, time |-> 0, rawRouteId |-> 100]
BlastUpdates == {<<>>, <<SameRouteAtStop>>, <<OtherRouteAtStop>>}

PauseMs == DELAY_DATA_MAX_AGE_S * 1000

InitBlast ==
  /\ InitManagers
  /\ pendingHist = MaxHistEntriesBlast
  /\ connects = 1

TickBlast ==
  /\ pendingHist = 0
  /\ currentTime = now
  /\ lastBroadcastAt = now
  /\ \A timer \in blastTimers : ~TimerDue(timer)
  /\ (now - StartTime) % PauseMs < MaxStepsBlast * BROADCAST_INTERVAL_MS
  /\ AdvanceClock(BROADCAST_INTERVAL_MS, now + BROADCAST_INTERVAL_MS)

PauseBlast ==
  /\ pendingHist = 0
  /\ currentTime = now
  /\ lastBroadcastAt = now
  /\ \A timer \in blastTimers : ~TimerDue(timer)
  /\ now - StartTime < PauseMs
  /\ AdvanceClock(PauseMs, now + PauseMs)

ReplayBlast ==
  \E batch \in {b \in BlastBatches : b["b2"] = 50} : HandleHistoricalWith(batch, <<>>, FALSE)

BroadcastBlast ==
  /\ currentTime = now
  /\ \E batch \in BlastBatches, updates \in BlastUpdates, cleanup \in BOOLEAN :
       /\ HandleRealTimeWith(batch, updates, {}, cleanup)
       /\ Moves(busPositionHistory'["b2"]) <= 1
       /\ Len(updates) = 0 => ~cleanup
       /\ Len(updates) > 0 => (lastBroadcastAt = NoTime \/ now - lastBroadcastAt >= PauseMs)

FrameBlast == pendingHist = 0 /\ currentTime # now /\ Animate

\* The user starts audio as soon as the page has loaded.
StartAudioBlast == now = StartTime /\ StartAudio

NextBlast ==
  \/ TickBlast
  \/ PauseBlast
  \/ ReplayBlast
  \/ BroadcastBlast
  \/ FrameBlast
  \/ StartAudioBlast
  \/ \E timer \in blastTimers : FireBlastTimer(timer)

SpecBlast == InitBlast /\ [][NextBlast]_vars

(***************************************************************************)
(* Replay bursts.  The cache keeps the entries that are at most            *)
(* CACHE_MAX_AGE_MS old, the one that is exactly that old included, so a   *)
(* server that broadcasts every BROADCAST_INTERVAL_MS replays up to        *)
(* ReplayableEntries messages on a connection; the client connects and     *)
(* reconnects at any time, b1 is in every message.                         *)
(***************************************************************************)
ReplayableEntries == CACHE_MAX_AGE_MS \div BROADCAST_INTERVAL_MS + 1

BurstBatches == {batch \in Batches : batch["b1"] = 110 /\ batch["b2"] = Absent}

MaxTimeBurst == StartTime + MaxStepsBurst * BROADCAST_INTERVAL_MS

TickBurst ==
  /\ pendingHist = 0
  /\ AdvanceClock(BROADCAST_INTERVAL_MS, MaxTimeBurst)

ConnectBurst ==
  /\ pendingHist = 0
  /\ \E entries \in 0..ReplayableEntries : Connect(entries)

ReplayBurst == \E batch \in BurstBatches : HandleHistorical(batch)

BroadcastBurst == \E batch \in BurstBatches : HandleRealTime(batch, {})

FrameBurst == pendingHist = 0 /\ currentTime # now /\ Animate

NextBurst ==
  \/ TickBurst
  \/ ConnectBurst
  \/ ReplayBurst
  \/ BroadcastBurst
  \/ FrameBurst

SpecBurst == Init /\ [][NextBurst]_vars

(***************************************************************************)
(* The pulse timers.  The connection replays enough of the cache for the   *)
(* lagged positions to exist at once; b1, the one bus of route 10, stays   *)
(* where it is and is in every message.  A frame runs at every clock value *)
(* before the next message is handled, and a timer that is due fires       *)
(* before the clock moves on.  The clock may move on without a broadcast:  *)
(* a message that is late or lost.                                         *)
(***************************************************************************)
AudioBatches == {batch \in Batches : batch["b1"] = 50 /\ batch["b2"] = Absent}
AudioUpdates == {<<>>, <<LateAhead>>}

MaxTimeAudio == StartTime + MaxStepsAudio * BROADCAST_INTERVAL_MS

InitAudio ==
  /\ InitManagers
  /\ pendingHist = MaxHistEntriesAudio
  /\ connects = 1

TickAudio ==
  /\ pendingHist = 0
  /\ currentTime = now
  /\ \A timer \in delayTimers : ~DelayTimerDue(timer)
  /\ \A r \in RouteIds : ~PulseDue(r)
  /\ AdvanceClock(BROADCAST_INTERVAL_MS, MaxTimeAudio)

ReplayAudio == \E batch \in AudioBatches : HandleHistoricalWith(batch, <<>>, FALSE)

BroadcastAudio ==
  /\ currentTime = now
  /\ \E batch \in AudioBatches, updates \in AudioUpdates :
       HandleRealTimeWith(batch, updates, {}, FALSE)

FrameAudio == pendingHist = 0 /\ Animate

NextAudio ==
  \/ TickAudio
  \/ ReplayAudio
  \/ BroadcastAudio
  \/ FrameAudio
  \/ StartAudio
  \/ StopAudio
  \/ \E r \in RouteIds : PulseTimer(r)
  \/ \E timer \in delayTimers : FireDelayTimer(timer)

SpecAudio == InitAudio /\ [][NextAudio]_vars

\* requestAnimationFrame has a frame to run: the clock has moved on since
\* the last one.
FrameDue == pendingHist = 0 /\ currentTime # now

\* The broadcast of this interval has not been handled yet.
BroadcastDue ==
  /\ connects > 0
  /\ pendingHist = 0
  /\ currentTime = now
  /\ (lastBroadcastAt = NoTime \/ now - lastBroadcastAt >= BROADCAST_INTERVAL_MS)

\* The event loop runs every callback that is ready: time passes, the
\* messages that have arrived are handled, frames and due timers run.  Weak
\* fairness of the frame and of the broadcast is written out, with FrameDue
\* and BroadcastDue as the states in which they are enabled.
FairSpecAudio ==
  /\ SpecAudio
  /\ WF_vars(TickAudio)
  /\ WF_vars(ReplayAudio)
  /\ ([]<>~BroadcastDue \/ []<><<BroadcastAudio>>_vars)
  /\ ([]<>~FrameDue \/ []<><<FrameAudio>>_vars)
  /\ \A r \in RouteIds : WF_vars(PulseTimer(r))
  /\ WF_vars(\E timer \in delayTimers : FireDelayTimer(timer))

(***************************************************************************)
(* getItemsInRadius on its own, for query points of the equator.           *)
(***************************************************************************)
QueryLons == {-180, -179, -178, -175, -171, -91, 0, 45, 89, 171, 175, 178, 179, 180}
QueryRadii == {200, 120000, 250000, 1200000}

InitIndex ==
  /\ InitObjects
  /\ pendingHist = 0
  /\ connects = 0
  /\ callArgs \in [op : {"getItemsInRadius"}, lon : QueryLons, radiusMeters : QueryRadii]
  /\ callResult = NoResult

CallGetItemsInRadius ==
  /\ callArgs.op = "getItemsInRadius"
  /\ ~callResult.done
  /\ callResult' = [done |-> TRUE,
                    value |-> GetItemsInRadiusOnEquator(callArgs.lon, callArgs.radiusMeters)]
  /\ UNCHANGED <<callArgs, sideVars, lastBatch, serverVars, now, lastOp, netVars, mapVars, frameVars,
                 appVars, delayVars, audioVars>>

NextIndex == CallGetItemsInRadius

SpecIndex == InitIndex /\ [][NextIndex]_vars

(***************************************************************************)
(* The server's HistoricalDataCache: broadcasts add an entry, a burst of   *)
(* them at startup, the cleanup timer runs, clients connect.               *)
(***************************************************************************)
\* A cleanup that keeps every entry.
CleanupKeepingAll(cached, nowT) == cached

\* entries.filter(entry => entry.timestamp >= Date.now() - maxAge)
CacheCleanup(cached, nowT) ==
  SelectSeq(cached, LAMBDA entry : entry.timestamp >= nowT - CACHE_MAX_AGE_MS)

\* entries.push(entry); if (entries.length > maxEntries) cleanup()
CacheAfterAdd(cached, nowT) ==
  LET pushed == Append(cached, [timestamp |-> nowT])
  IN IF Len(pushed) > CACHE_MAX_ENTRIES THEN CacheCleanup(pushed, nowT) ELSE pushed

MaxTimeCache == StartTime + MaxStepsCache * CACHE_CLEANUP_INTERVAL_MS

TickCache == AdvanceClock(CACHE_CLEANUP_INTERVAL_MS, MaxTimeCache)

\* historicalCache.addEntry(buses, updates): any number of calls while the
\* server starts, one per clock value afterwards.
AddEntry ==
  /\ Len(cacheEntries) < MaxCacheEntries
  /\ now = StartTime \/ \A i \in DOMAIN cacheEntries : cacheEntries[i].timestamp # now
  /\ cacheEntries' = CacheAfterAdd(cacheEntries, now)
  /\ UNCHANGED <<wireVars, calcVars, sideVars, lastBatch, now, lastOp, netVars, mapVars, frameVars, appVars, delayVars, audioVars>>

\* The setInterval callback of the cache.
CleanupTimer ==
  /\ cacheEntries' = CacheCleanup(cacheEntries, now)
  /\ UNCHANGED <<wireVars, calcVars, sideVars, lastBatch, now, lastOp, netVars, mapVars, frameVars, appVars, delayVars, audioVars>>

\* historicalCache.getHistoricalData() of wss.on('connection'): cleanup(), then
\* the entries; removedCount is what that cleanup() removed.
GetHistoricalData ==
  /\ cacheEntries' = CacheCleanup(cacheEntries, now)
  /\ callArgs' = [op |-> "getHistoricalData", at |-> now]
  /\ callResult' = [done |-> TRUE, value |-> cacheEntries',
                    removedCount |-> Len(cacheEntries) - Len(cacheEntries')]
  /\ UNCHANGED <<wireVars, sideVars, lastBatch, now, lastOp, netVars, mapVars, frameVars, appVars, delayVars, audioVars>>

NextCache ==
  \/ TickCache
  \/ AddEntry
  \/ CleanupTimer
  \/ GetHistoricalData

SpecCache == Init /\ [][NextCache]_vars

(***************************************************************************)
(* The server's sockets: broadcastUpdates adds a cache entry and sends it  *)
(* to the open sockets, a new connection gets the replay of the cache.     *)
(* Handlers of the server run to completion, one at a time.                *)
(***************************************************************************)
\* A replay that sends the newest entry first.
HistoricalMessagesNewestFirst(cached) ==
  [i \in 1..Len(cached) |->
     [timestamp |-> cached[Len(cached) + 1 - i].timestamp, isHistorical |-> TRUE,
      from |-> "connection"]]

\* entries.map(entry => ({type, timestamp: entry.timestamp, ..., isHistorical: true})),
\* sent one by one by the forEach of the connection handler.
HistoricalMessages(cached) ==
  [i \in 1..Len(cached) |->
     [timestamp |-> cached[i].timestamp, isHistorical |-> TRUE, from |-> "connection"]]

\* The message of broadcastUpdates.
BroadcastMessage(nowT) ==
  [timestamp |-> nowT, isHistorical |-> FALSE, from |-> "broadcastUpdates"]

MaxTimeServer == StartTime + MaxStepsServer * CACHE_CLEANUP_INTERVAL_MS

TickServer == AdvanceClock(CACHE_CLEANUP_INTERVAL_MS, MaxTimeServer)

\* broadcastUpdates once the two fetches have resolved: addEntry, then one
\* send per open socket.  A fetch that fails leaves the step out.
BroadcastUpdates ==
  /\ now \notin addedAt
  /\ cacheEntries' = CacheAfterAdd(cacheEntries, now)
  /\ addedAt' = addedAt \cup {now}
  /\ sent' = [ws \in Sockets |->
               IF ws \in wsClients THEN Append(sent[ws], BroadcastMessage(now)) ELSE sent[ws]]
  /\ UNCHANGED <<wsClients, connectedAt, calcVars, sideVars, lastBatch, now, lastOp, netVars, mapVars,
                 frameVars, appVars, delayVars, audioVars>>

\* The setInterval callback of the cache, between two handlers of the sockets.
CleanupTimerServer ==
  /\ cacheEntries' = CacheCleanup(cacheEntries, now)
  /\ UNCHANGED <<wireVars, calcVars, sideVars, lastBatch, now, lastOp, netVars, mapVars, frameVars,
                 appVars, delayVars, audioVars>>

\* wss.on('connection', ws): the socket is open and in wss.clients, the handler
\* sends getHistoricalData() entry by entry.
OnConnection(ws) ==
  /\ connectedAt[ws] = NoTime
  /\ cacheEntries' = CacheCleanup(cacheEntries, now)
  /\ wsClients' = wsClients \cup {ws}
  /\ connectedAt' = [connectedAt EXCEPT ![ws] = now]
  /\ sent' = [sent EXCEPT ![ws] = sent[ws] \o HistoricalMessages(cacheEntries')]
  /\ UNCHANGED <<addedAt, calcVars, sideVars, lastBatch, now, lastOp, netVars, mapVars, frameVars,
                 appVars, delayVars, audioVars>>

\* ws.on('close'): the socket leaves wss.clients.
OnClose(ws) ==
  /\ ws \in wsClients
  /\ wsClients' = wsClients \ {ws}
  /\ UNCHANGED <<cacheEntries, sent, connectedAt, addedAt, calcVars, sideVars, lastBatch, now, lastOp,
                 netVars, mapVars, frameVars, appVars, delayVars, audioVars>>

NextServer ==
  \/ TickServer
  \/ BroadcastUpdates
  \/ CleanupTimerServer
  \/ \E ws \in Sockets : OnConnection(ws)
  \/ \E ws \in Sockets : OnClose(ws)

SpecServer == Init /\ [][NextServer]_vars

(***************************************************************************)
(* One page and its server.  The server broadcasts the feed at most once   *)
(* per clock value and records every batch in its cache; the page opens    *)
(* socket ws1, and ws2 when ws1 has closed.  Each message a socket was     *)
(* sent is handled by the page in the order sent, the replay first; a      *)
(* real-time message is handled at the clock value of its broadcast.  The  *)
(* bus of the feed is 10 m further on in every batch, so that a sample     *)
(* shows which batch it is from.                                           *)
(***************************************************************************)
FeedBatch(t) ==
  [b \in Buses |->
     IF b = "b1" THEN 110 + 10 * ((t - StartTime) \div BROADCAST_INTERVAL_MS) ELSE Absent]

\* The socket of the page's n-th connection.
SocketOf(n) == IF n = 1 THEN "ws1" ELSE "ws2"

\* What the replay of a socket consists of.
ReplayOf(ws) == SelectSeq(sent[ws], LAMBDA msg : msg.isHistorical)

MaxTimePage == StartTime + MaxStepsPage * BROADCAST_INTERVAL_MS

\* A real-time message of the current clock value that the page has not handled.
RealTimePending ==
  /\ connects > 0
  /\ lastBroadcastAt # now
  /\ \E i \in DOMAIN sent[SocketOf(connects)] :
       /\ ~sent[SocketOf(connects)][i].isHistorical
       /\ sent[SocketOf(connects)][i].timestamp = now

TickPage ==
  /\ pendingHist = 0
  /\ ~RealTimePending
  /\ AdvanceClock(BROADCAST_INTERVAL_MS, MaxTimePage)

\* new WebSocket(wsUrl) of connect(), as the server sees it: the first
\* connection, or the one handleReconnect makes after the close of the last.
ServerAccepts ==
  /\ connects < MaxConnects
  /\ connects > 0 => SocketOf(connects) \notin wsClients
  /\ OnConnection(SocketOf(connects + 1))

\* The socket is open on the page and the replay is on its way.
PageConnected ==
  /\ pendingHist = 0
  /\ connectedAt[SocketOf(connects + 1)] # NoTime
  /\ Connect(Len(ReplayOf(SocketOf(connects + 1))))

\* The connection drops.
SocketCloses ==
  /\ connects > 0
  /\ pendingHist = 0
  /\ ~RealTimePending
  /\ OnClose(SocketOf(connects))

ReplayPage ==
  /\ connects > 0
  /\ pendingHist > 0
  /\ HandleHistorical(FeedBatch(ReplayOf(SocketOf(connects))[burstIndex + 1].timestamp))

BroadcastPage ==
  /\ RealTimePending
  /\ HandleRealTime(FeedBatch(now), {})

FramePage == pendingHist = 0 /\ currentTime # now /\ ~RealTimePending /\ Animate

NextPage ==
  \/ TickPage
  \/ BroadcastUpdates
  \/ ServerAccepts
  \/ PageConnected
  \/ SocketCloses
  \/ ReplayPage
  \/ BroadcastPage
  \/ FramePage

SpecPage == Init /\ [][NextPage]_vars

(***************************************************************************)
(* WebSocketClient.  The app calls connect() once, and disconnect() at     *)
(* most once, at any time.  A socket that is connecting opens or fails; a  *)
(* failure is an error event followed by a close event; an open socket     *)
(* may drop at any time.  new WebSocket() may throw.  A reconnect timer    *)
(* fires when it is due, before the clock moves on.                        *)
(***************************************************************************)
\* Everything outside the WebSocket client and the stops layer.
dataVars == <<now, lastOp, frameVars, netVars, mapVars, appVars, calcVars, lastBatch,
              serverVars, delayVars, audioVars>>

\* A handleReconnect without the limit of attempts.
HandleReconnectWithoutLimit(st, nowT) ==
  [reconnectAttempts |-> st.reconnectAttempts + 1,
   status |-> "Reconnecting",
   reconnectTimers |-> st.reconnectTimers \cup
     {[attempt |-> st.reconnectAttempts + 1,
       due |-> nowT + reconnectDelay * 2 ^ st.reconnectAttempts]}]

\* handleReconnect(): st holds reconnectAttempts, the status and the pending
\* timers; the status 'Reconnecting... (n/5)' is "Reconnecting", n being
\* reconnectAttempts.
HandleReconnect(st, nowT) ==
  IF st.reconnectAttempts < maxReconnectAttempts
  THEN LET attempt == st.reconnectAttempts + 1
           delay == reconnectDelay * 2 ^ (attempt - 1)
       IN [reconnectAttempts |-> attempt,
           status |-> "Reconnecting",
           reconnectTimers |-> st.reconnectTimers \cup
                                 {[attempt |-> attempt, due |-> nowT + delay]}]
  ELSE [st EXCEPT !.status = "Connection failed"]

\* connect(), with timers the timers that stay pending: new WebSocket(wsUrl)
\* and the four handlers, or the catch block.
ClientConnect(throws, timers) ==
  IF throws
  THEN \E st \in {HandleReconnect([reconnectAttempts |-> reconnectAttempts,
                                    status |-> "Failed",
                                    reconnectTimers |-> timers], now)} :
         /\ reconnectAttempts' = st.reconnectAttempts
         /\ status' = st.status
         /\ reconnectTimers' = st.reconnectTimers
         /\ UNCHANGED <<clientWs, sockets>>
  ELSE /\ Len(sockets) < MaxSockets
       /\ sockets' = Append(sockets, "connecting")
       /\ clientWs' = Len(sockets) + 1
       /\ reconnectTimers' = timers
       /\ UNCHANGED <<reconnectAttempts, status>>

\* this.wsClient.connect() of initialize()
AppConnect ==
  /\ status = "none"
  /\ sockets = <<>>
  /\ ~disconnectCalled
  /\ \E throws \in BOOLEAN : ClientConnect(throws, reconnectTimers)
  /\ UNCHANGED <<isConnected, disconnectCalled, attemptsSinceOpen, dataVars, stopsVars>>

\* The setTimeout callback of handleReconnect.
ReconnectTimerFires(timer) ==
  /\ timer.due <= now
  /\ attemptsSinceOpen' = attemptsSinceOpen + 1
  /\ \E throws \in BOOLEAN : ClientConnect(throws, reconnectTimers \ {timer})
  /\ UNCHANGED <<isConnected, disconnectCalled, dataVars, stopsVars>>

\* ws.onopen
SocketOpens(i) ==
  /\ sockets[i] = "connecting"
  /\ sockets' = [sockets EXCEPT ![i] = "open"]
  /\ isConnected' = TRUE
  /\ reconnectAttempts' = 0
  /\ status' = "Connected"
  /\ attemptsSinceOpen' = 0
  /\ UNCHANGED <<clientWs, reconnectTimers, disconnectCalled, dataVars, stopsVars>>

\* ws.onerror of a connection that fails; its close event follows.
SocketErrors(i) ==
  /\ sockets[i] = "connecting"
  /\ sockets' = [sockets EXCEPT ![i] = "failing"]
  /\ status' = "Error"
  /\ UNCHANGED <<clientWs, isConnected, reconnectAttempts, reconnectTimers, disconnectCalled,
                 attemptsSinceOpen, dataVars, stopsVars>>

\* ws.onclose: of a connection that failed, of an open socket that drops,
\* of a socket that close() was called on.
SocketCloseEvent(i) ==
  /\ sockets[i] \in {"failing", "open", "closing"}
  /\ sockets' = [sockets EXCEPT ![i] = "closed"]
  /\ isConnected' = FALSE
  /\ \E st \in {HandleReconnect([reconnectAttempts |-> reconnectAttempts,
                                  status |-> "Disconnected",
                                  reconnectTimers |-> reconnectTimers], now)} :
       /\ reconnectAttempts' = st.reconnectAttempts
       /\ status' = st.status
       /\ reconnectTimers' = st.reconnectTimers
  /\ UNCHANGED <<clientWs, disconnectCalled, attemptsSinceOpen, dataVars, stopsVars>>

\* disconnect(): this.ws.close(), this.ws = null, isConnected = false
Disconnect ==
  /\ ~disconnectCalled
  /\ disconnectCalled' = TRUE
  /\ sockets' = [i \in DOMAIN sockets |->
                   IF i = clientWs /\ sockets[i] \in {"connecting", "open"}
                   THEN "closing" ELSE sockets[i]]
  /\ clientWs' = NoSocket
  /\ isConnected' = FALSE
  /\ UNCHANGED <<reconnectAttempts, status, reconnectTimers, attemptsSinceOpen, dataVars,
                 stopsVars>>

MaxTimeClient == StartTime + MaxStepsClient * reconnectDelay

TickClient ==
  /\ \A timer \in reconnectTimers : timer.due > now
  /\ AdvanceClock(reconnectDelay, MaxTimeClient)

NextClient ==
  \/ TickClient
  \/ AppConnect
  \/ \E timer \in reconnectTimers : ReconnectTimerFires(timer)
  \/ \E i \in DOMAIN sockets : SocketOpens(i)
  \/ \E i \in DOMAIN sockets : SocketErrors(i)
  \/ \E i \in DOMAIN sockets : SocketCloseEvent(i)
  \/ Disconnect

SpecClient == Init /\ [][NextClient]_vars

(***************************************************************************)
(* CanvasStopsLayer, once it is on the map.  animateStopPulse is called    *)
(* for any stop at any time, the map redraws the layer at any time (reset, *)
(* resize, the timeout of updatePosition), a requested animation frame     *)
(* runs at any later point.  Every redraw sees some of the stops in the    *)
(* viewport.  The state of the layer is the record st.                     *)
(***************************************************************************)
StopsOnCanvas == {"s1", "s2"}

StopsLayer ==
  [animations |-> animations, isAnimating |-> isAnimating, animationFrame |-> animationFrame,
   pendingFrames |-> pendingFrames, framesRequested |-> framesRequested]

Animating(st) == {s \in Stops : st.animations[s] # NoTime}

\* stopAnimation(): cancelAnimationFrame takes a pending request away and
\* does nothing for an id whose callback has run.
StopAnimation(st) ==
  [st EXCEPT !.isAnimating = FALSE,
             !.pendingFrames = @ \ {st.animationFrame},
             !.animationFrame = NoFrame]

\* redraw(): the animations of the stops in the viewport that are over are
\* deleted, and stopAnimation() is called when the last one goes.
Redraw(st, nowT, visible) ==
  LET finished == {s \in visible \cap Animating(st) :
                     nowT - st.animations[s] >= animationDuration}
      st1 == [st EXCEPT !.animations = [s \in Stops |-> IF s \in finished THEN NoTime ELSE @[s]]]
  IN IF finished # {} /\ Animating(st1) = {} THEN StopAnimation(st1) ELSE st1

\* An animate that asks for the next frame only while the loop is on.
AnimateLoopChecked(st, nowT, visible) ==
  IF ~st.isAnimating \/ Animating(st) = {} THEN StopAnimation(st)
  ELSE LET st1 == Redraw(st, nowT, visible)
           id == st1.framesRequested + 1
       IN IF ~st1.isAnimating THEN st1
          ELSE [st1 EXCEPT !.animationFrame = id,
                           !.pendingFrames = @ \cup {id},
                           !.framesRequested = id]

\* The closure animate of startAnimation().
AnimateLoop(st, nowT, visible) ==
  IF ~st.isAnimating \/ Animating(st) = {} THEN StopAnimation(st)
  ELSE LET st1 == Redraw(st, nowT, visible)
           id == st1.framesRequested + 1
       IN [st1 EXCEPT !.animationFrame = id,
                      !.pendingFrames = @ \cup {id},
                      !.framesRequested = id]

\* startAnimation()
StartAnimation(st, nowT, visible) ==
  IF st.isAnimating THEN st
  ELSE AnimateLoop([st EXCEPT !.isAnimating = TRUE], nowT, visible)

SetStopsLayer(st) ==
  /\ animations' = st.animations
  /\ isAnimating' = st.isAnimating
  /\ animationFrame' = st.animationFrame
  /\ pendingFrames' = st.pendingFrames
  /\ framesRequested' = st.framesRequested
  /\ framesRequested' <= MaxFrames
  /\ UNCHANGED <<dataVars, clientVars>>

\* animateStopPulse(stopId, intensity)
AnimateStopPulse(stopId) ==
  \E visible \in SUBSET StopsOnCanvas :
    \E st \in {StartAnimation([StopsLayer EXCEPT !.animations[stopId] = now], now, visible)} :
      SetStopsLayer(st)

\* A requested animation frame runs.
AnimationFrameRuns(id) ==
  \E visible \in SUBSET StopsOnCanvas :
    \E st \in {AnimateLoop([StopsLayer EXCEPT !.pendingFrames = @ \ {id}], now, visible)} :
      SetStopsLayer(st)

\* redraw() called by reset(), resize() or the timeout of updatePosition()
MapRedraws ==
  \E visible \in SUBSET StopsOnCanvas :
    \E st \in {Redraw(StopsLayer, now, visible)} :
      /\ st # StopsLayer
      /\ SetStopsLayer(st)

StopsStep == animationDuration \div 2

MaxTimeStops == StartTime + MaxStepsStops * StopsStep

TickStops == AdvanceClock(StopsStep, MaxTimeStops)

NextStops ==
  \/ TickStops
  \/ \E stopId \in StopsOnCanvas : AnimateStopPulse(stopId)
  \/ \E id \in pendingFrames : AnimationFrameRuns(id)
  \/ MapRedraws

SpecStops == Init /\ [][NextStops]_vars

(***************************************************************************)
(* lerpAngle called on its own, on bearings of [0, 360) and fractions of   *)
(* [0, 1].                                                                 *)
(***************************************************************************)
Bearings == {R(0), R(10), R(45), R(90), R(170), R(180), R(190), R(270), R(350), R(359),
             [n |-> 1, d |-> 2], [n |-> 719, d |-> 2]}
Fractions == {R(0), [n |-> 1, d |-> 4], [n |-> 1, d |-> 2], [n |-> 3, d |-> 4], R(1)}

InitLerpAngle ==
  /\ InitObjects
  /\ pendingHist = 0
  /\ connects = 0
  /\ callArgs \in [op : {"lerpAngle"}, a : Bearings, b : Bearings, t : Fractions]
  /\ callResult = NoResult

CallLerpAngle ==
  /\ callArgs.op = "lerpAngle"
  /\ ~callResult.done
  /\ callResult' = [done |-> TRUE, value |-> LerpAngle(callArgs.a, callArgs.b, callArgs.t)]
  /\ UNCHANGED <<callArgs, sideVars, lastBatch, serverVars, now, lastOp, netVars, mapVars, frameVars, appVars, delayVars, audioVars>>

NextLerpAngle == CallLerpAngle

SpecLerpAngle == InitLerpAngle /\ [][NextLerpAngle]_vars

(***************************************************************************)
(* Interpolation: two buses running in opposite directions between the    *)
(* two places, a replayed cache in which a bus may first be missing, and   *)
(* frames both at the broadcast times and halfway between them.            *)
(***************************************************************************)
FrameStep == BROADCAST_INTERVAL_MS \div 2
MaxTimeI == StartTime + MaxStepsI * FrameStep

\* b1 at one place or not reported; b2, when b1 is reported, at the other.
InterpBatches ==
  {batch \in Batches :
     batch["b2"] = (CASE batch["b1"] = 110 -> 50
                      [] batch["b1"] = 50 -> 110
                      [] OTHER -> 50)}

InitInterp ==
  /\ InitManagers
  /\ pendingHist = MaxHistEntriesI
  /\ connects = 1

TickI ==
  /\ pendingHist = 0
  /\ AdvanceClock(FrameStep, MaxTimeI)

ReplayI == \E batch \in InterpBatches : HandleHistorical(batch)

\* The server broadcasts every BROADCAST_INTERVAL_MS.
BroadcastI ==
  /\ (now - StartTime) % BROADCAST_INTERVAL_MS = 0
  /\ \E batch \in InterpBatches : HandleRealTime(batch, {})

FrameI == pendingHist = 0 /\ Animate

NextI ==
  \/ TickI
  \/ ReplayI
  \/ BroadcastI
  \/ FrameI

SpecI == InitInterp /\ [][NextI]_vars

(***************************************************************************)
(* Arrival detection.                                                      *)
(***************************************************************************)
\* The emissions for one (bus, stop) pair.
EmissionsOf(busId, stopId) == {e \in emitted : e.busId = busId /\ e.stopId = stopId}

\* The geometry of an arrival, between the position the detector had stored
\* for the bus and the position it is given now.
Approached(prevLat, curLat, stopId) ==
  LET distanceNow == CalculateDistance(curLat, R(StopLat(stopId)))
      distancePrev == CalculateDistance(prevLat, R(StopLat(stopId)))
  IN /\ RLt(distanceNow, R(STOP_THRESHOLD_METERS))
     /\ RLt(distanceNow, distancePrev)
     /\ RLt(R(APPROACH_THRESHOLD_METERS), RSub(distancePrev, distanceNow))

\* C1: two arrival emissions for the same (bus, stop) pair are always more
\* than ARRIVAL_DEBOUNCE_MS of detection time apart, whatever the positions
\* do around the threshold and whenever the random cleanup of the debounce
\* table fires.
DebounceSeparation ==
  \A e1 \in emitted, e2 \in emitted :
    (e1 # e2 /\ e1.busId = e2.busId /\ e1.stopId = e2.stopId /\ e1.at <= e2.at)
      => e2.at - e1.at > ARRIVAL_DEBOUNCE_MS

\* A bus has arrived at a stop for the second time, after the cleanup had
\* deleted the table entry of its first arrival there.
ArrivedAgainAfterCleanup ==
  /\ lastOp = "realtime"
  /\ \E e1 \in emitted, e2 \in emitted :
       /\ e1.busId = e2.busId /\ e1.stopId = e2.stopId
       /\ e1.at < e2.at /\ e2.at = now
       /\ e2.entryDeleted

\* C2: a real-time batch emits an arrival for a bus and a candidate stop
\* exactly when a previous position was stored for the bus, the bus is now
\* within 100 m of the stop, nearer than before by more than 20 m, and no
\* arrival of the pair was recorded in the last 30000 ms; a bus seen for the
\* first time has its position stored and emits nothing.
EmitsExactlyOnArrival ==
  lastOp = "realtime" =>
    \A b \in Buses :
      LET emittedNow(s) == \E e \in EmissionsOf(b, s) : e.at = now
      IN IF ~currentInterpolatedPositions[b].has
         THEN \A s \in Stops : ~emittedNow(s)
         ELSE LET cur == currentInterpolatedPositions[b].pos
              IN /\ lastBusPositions[b] = [has |-> TRUE, lat |-> cur.lat, timestamp |-> now]
                 /\ \A s \in Stops :
                      emittedNow(s) <=>
                        /\ s \in GetItemsInRadius(cur.lat, STOP_THRESHOLD_METERS * SEARCH_RADIUS_MULTIPLIER)
                        /\ detectedFrom[b].has
                        /\ Approached(detectedFrom[b].lat, cur.lat, s)
                        /\ ~\E e \in EmissionsOf(b, s) :
                              e.at < now /\ now - e.at <= ARRIVAL_DEBOUNCE_MS

\* A batch has emitted an arrival, and an earlier batch was the first
\* sighting of that bus.
ArrivalEmitted ==
  /\ lastOp = "realtime"
  /\ \E e \in emitted : e.at = now /\ detectedFrom[e.busId].has

CrossedThreshold == {e \in emitted : RLt(R(STOP_THRESHOLD_METERS), e.distancePrev)}

\* C4: for an emitted arrival whose previous distance was above the
\* threshold, the crossing time is prev.timestamp + ((distancePrev - threshold)
\* / (distancePrev - distanceNow)) * (cur.timestamp - prev.timestamp), a time
\* between the two timestamps; 150 m at 0 and 50 m at 10 cross 100 m at 5.
CrossingTimeLinear ==
  /\ \A e \in CrossedThreshold :
       /\ RMul(RSub(e.crossingTime, R(e.prevTimestamp)), RSub(e.distancePrev, e.distanceNow))
            = RMul(RSub(e.distancePrev, R(STOP_THRESHOLD_METERS)), R(e.at - e.prevTimestamp))
       /\ RLe(R(e.prevTimestamp), e.crossingTime)
       /\ RLe(e.crossingTime, R(e.at))
  /\ InterpolateArrivalTime([lat |-> R(150), timestamp |-> 0],
                            [lat |-> R(50), timestamp |-> 10], R(0),
                            R(STOP_THRESHOLD_METERS)) = R(5)

\* An arrival was emitted whose crossing lies strictly between the two detections.
CrossingInterpolated ==
  \E e \in CrossedThreshold :
    RLt(R(e.prevTimestamp), e.crossingTime) /\ RLt(e.crossingTime, R(e.at))

\* The emissions handed to scheduleArrivalBlastAtTime more than
\* MAX_BLAST_DELAY_MS after their crossing time.
StaleArrivals ==
  {e \in emitted : e.scheduled /\ RLt(R(MAX_BLAST_DELAY_MS), RSub(R(e.at), e.crossingTime))}

\* C5: an arrival older than MAX_BLAST_DELAY_MS never produces an arrival
\* blast: none is played, none is waiting on a timer, and the arrival is not
\* in the arrival event list.
StaleArrivalSuppressed ==
  \A e \in emitted :
    RLt(R(MAX_BLAST_DELAY_MS), RSub(R(e.at), e.crossingTime)) =>
      /\ ~\E call \in blasts :
            call.busId = e.busId /\ call.stopId = e.stopId /\ call.at = e.at
      /\ ~\E timer \in blastTimers :
            timer.call.busId = e.busId /\ timer.call.stopId = e.stopId /\ timer.call.at = e.at
      /\ ~\E i \in DOMAIN recentArrivalEvents :
            recentArrivalEvents[i].stopId = e.stopId /\ recentArrivalEvents[i].timestamp = e.at

\* While audio ran, an arrival older than the bound was handed to the
\* scheduler next to a fresh one that made it into the event list.
StaleArrivalScheduled ==
  /\ StaleArrivals # {}
  /\ recentArrivalEvents # <<>>

(***************************************************************************)
(* History buffers.                                                        *)
(***************************************************************************)
\* C7 as stated: in every history buffer insertion order is non-decreasing
\* timestamp order, also after a second replay burst that follows a reconnect.
HistoryTimeOrdered ==
  \A b \in Buses :
    \A i \in 1..Len(busPositionHistory[b]), j \in 1..Len(busPositionHistory[b]) :
      i < j => busPositionHistory[b][i].timestamp <= busPositionHistory[b][j].timestamp

\* C8 as stated: after a cleanupOldHistory pass every sample left in a
\* buffer is no older than currentTime - MAX_HISTORY_AGE_MS.
PrunedToMaxAge ==
  lastOp = "animate" =>
    \A b \in Buses :
      \A i \in 1..Len(busPositionHistory[b]) :
        busPositionHistory[b][i].timestamp >= currentTime - MAX_HISTORY_AGE_MS

\* C9: after a cleanupOldHistory pass no bus is left whose newest sample is
\* older than currentTime - MAX_HISTORY_AGE_MS; the buses the pass removed
\* have no history buffer, no lagged position and no marker.
StaleBusesRemoved ==
  lastOp = "animate" =>
    \A b \in Buses :
      /\ Len(busPositionHistory[b]) > 0 =>
           busPositionHistory[b][Len(busPositionHistory[b])].timestamp
             >= currentTime - MAX_HISTORY_AGE_MS
      /\ b \in cleanupRemoved =>
           /\ busPositionHistory[b] = <<>>
           /\ ~currentInterpolatedPositions[b].has
           /\ b \notin busMarkers

\* A cleanup pass has removed a bus.
StaleBusRemoved ==
  /\ lastOp = "animate"
  /\ cleanupRemoved # {}

\* The buses for which the last tick stored a raw sample: the only sample
\* of the buffer, or the most recent one when no pair brackets displayTime.
RawSampleStored ==
  {b \in interpStored \ cleanupRemoved : interpPath[b] \in {"single", "fallback"}}

\* C10: a raw sample stored by the single-sample path or by the
\* most-recent-sample fallback is never more than 30000 ms after displayTime
\* (it may be older than displayTime by any amount that pruning leaves);
\* when the sample is later than that, the tick stores no position.
SampleNotAfterTolerance ==
  lastOp = "animate" =>
    \A b \in Buses :
      interpPath[b] \in {"single", "fallback"} =>
        IF b \in interpStored
        THEN b \in RawSampleStored =>
               currentInterpolatedPositions[b].pos.timestamp
                 <= (currentTime - DISPLAY_LAG_MS) + FALLBACK_TOLERANCE_MS
        ELSE busPositionHistory[b][Len(busPositionHistory[b])].timestamp
               > (currentTime - DISPLAY_LAG_MS) + FALLBACK_TOLERANCE_MS

\* A tick stored a raw sample that lies after displayTime.
RawSampleUsed ==
  /\ lastOp = "animate"
  /\ \E b \in RawSampleStored :
       currentInterpolatedPositions[b].pos.timestamp > currentTime - DISPLAY_LAG_MS

\* C10 as stated: the stored raw sample is within 30000 ms of displayTime
\* on either side.
SampleWithinToleranceBothSides ==
  lastOp = "animate" =>
    \A b \in RawSampleStored :
      /\ currentInterpolatedPositions[b].pos.timestamp
           <= (currentTime - DISPLAY_LAG_MS) + FALLBACK_TOLERANCE_MS
      /\ currentInterpolatedPositions[b].pos.timestamp
           >= (currentTime - DISPLAY_LAG_MS) - FALLBACK_TOLERANCE_MS

\* C6: whatever historical and real-time updateBuses calls have run, a
\* history buffer holds at most HISTORY_CAP samples, and a push onto a full
\* buffer drops the sample inserted first and keeps the others in order.
HistoryCapFIFO ==
  /\ [](\A b \in Buses : Len(busPositionHistory[b]) <= HISTORY_CAP)
  /\ [][\A b \in Buses :
          (Len(busPositionHistory[b]) = HISTORY_CAP
           /\ lastOp' \in {"historical", "realtime"}
           /\ busPositionHistory'[b] # <<>>) =>
            /\ Len(busPositionHistory'[b]) = HISTORY_CAP
            /\ SubSeq(busPositionHistory'[b], 1, HISTORY_CAP - 1) = Tail(busPositionHistory[b])]_vars

\* A buffer is full and the sample inserted first is no longer in it.
HistoryOverflowed ==
  \E b \in Buses :
    /\ Len(busPositionHistory[b]) = HISTORY_CAP
    /\ busPositionHistory[b][1].timestamp > StartTime

(***************************************************************************)
(* C11: when a frame computes no position for a tracked bus (its only      *)
(* sample, or with no bracketing pair its most recent sample, is outside   *)
(* the tolerance), the lagged positions hold no entry for that bus after   *)
(* the frame.                                                              *)
(***************************************************************************)
NoPositionComputed == {b \in Buses : interpPath[b] \in {"single", "fallback"}
                                      /\ b \notin interpStored}

NoStalePositionServed ==
  lastOp = "animate" =>
    \A b \in NoPositionComputed : ~currentInterpolatedPositions[b].has

(***************************************************************************)
(* C12: when displayTime is bracketed by two consecutive samples, the      *)
(* interpolated latitude lies between the two samples' latitudes, strictly *)
(* between when displayTime is the midpoint and the latitudes differ, and  *)
(* at progress 0 or 1 the position has the latitude and bearing of the     *)
(* corresponding sample.                                                   *)
(***************************************************************************)
RBetween(x, a, b) == (RLe(a, x) /\ RLe(x, b)) \/ (RLe(b, x) /\ RLe(x, a))
RStrictlyBetween(x, a, b) == (RLt(a, x) /\ RLt(x, b)) \/ (RLt(b, x) /\ RLt(x, a))

InterpolatedBetweenSamples ==
  [][lastOp' = "animate" =>
       \A b \in Buses :
         (interpPath'[b] = "interp" /\ b \notin cleanupRemoved') =>
           LET history == busPositionHistory[b]
               displayTime == currentTime' - DISPLAY_LAG_MS
               i == MinOf(Brackets(history, displayTime))
               beforePos == history[i]
               afterPos == history[i + 1]
               pos == currentInterpolatedPositions'[b].pos
           IN /\ RBetween(pos.lat, beforePos.lat, afterPos.lat)
              /\ (2 * displayTime = beforePos.timestamp + afterPos.timestamp
                    /\ beforePos.lat # afterPos.lat)
                   => RStrictlyBetween(pos.lat, beforePos.lat, afterPos.lat)
              /\ displayTime = beforePos.timestamp
                   => (pos.lat = beforePos.lat /\ pos.bearing = beforePos.bearing)
              /\ (displayTime = afterPos.timestamp
                    /\ beforePos.timestamp < afterPos.timestamp)
                   => (pos.lat = afterPos.lat /\ pos.bearing = afterPos.bearing)]_vars

\* A frame has interpolated a bus halfway between its two places.
InterpolatedAtMidpoint ==
  /\ lastOp = "animate"
  /\ \E b \in Buses :
        /\ interpPath[b] = "interp"
        /\ currentInterpolatedPositions[b].has
        /\ currentInterpolatedPositions[b].pos.lat = R(80)

(***************************************************************************)
(* C13: for bearings a, b of [0, 360) and t of [0, 1], lerpAngle(a, b, t)  *)
(* lies in [0, 360) and is the bearing at the fraction t of the shorter    *)
(* arc from a to b, an arc of at most 180 degrees; lerpAngle(350, 10, 1/2) *)
(* is 0.                                                                   *)
(***************************************************************************)
\* The angle between two bearings of [0, 360), the shorter way round.
AngularDistance(x, y) ==
  LET d == RAbs(RSub(x, y)) IN RMin(d, RSub(R(360), d))

LerpAngleShorterArc ==
  callResult.done =>
    LET a == callArgs.a
        b == callArgs.b
        t == callArgs.t
        r == callResult.value
        arc == AngularDistance(a, b)
    IN /\ RLe(R(0), r) /\ RLt(r, R(360))
       /\ RLe(arc, R(180))
       /\ AngularDistance(a, r) = RMul(t, arc)
       /\ AngularDistance(r, b) = RMul(RSub(R(1), t), arc)
       /\ (a = R(350) /\ b = R(10) /\ t = [n |-> 1, d |-> 2]) => r = R(0)

\* Halfway from 350 to 10 the bearing is due north.
BearingAcrossNorth ==
  /\ callResult.done
  /\ callArgs.a = R(350) /\ callArgs.b = R(10) /\ callArgs.t = [n |-> 1, d |-> 2]
  /\ callResult.value = R(0)

(***************************************************************************)
(* C14: within one frame every tracked bus is interpolated against the     *)
(* same displayTime = currentTime - displayLag: the positions a frame      *)
(* interpolates all carry that one timestamp.                              *)
(***************************************************************************)
InterpolatedInFrame == {b \in Buses : interpPath[b] = "interp" /\ b \notin cleanupRemoved}

SameDisplayTimeForAllBuses ==
  lastOp = "animate" =>
    \A b \in InterpolatedInFrame :
      currentInterpolatedPositions[b].pos.timestamp = currentTime - DISPLAY_LAG_MS

\* One frame has interpolated both buses, at different places.
TwoBusesInterpolated ==
  /\ lastOp = "animate"
  /\ InterpolatedInFrame = Buses
  /\ currentInterpolatedPositions["b1"].pos.lat # currentInterpolatedPositions["b2"].pos.lat

(***************************************************************************)
(* C15: a frame that comes more than MAX_TIME_GAP_MS after the previous    *)
(* one clears every history buffer and the arrival debounce table before   *)
(* it interpolates: it finds no bus to interpolate and leaves no entry in  *)
(* recentArrivals.                                                         *)
(***************************************************************************)
GapResetsTransientState ==
  [][(lastOp' = "animate" /\ now - lastAnimationTime > MAX_TIME_GAP_MS) =>
       /\ \A b \in Buses : interpPath'[b] = "empty"
       /\ \A k \in DOMAIN recentArrivals : recentArrivals'[k] = NoTime]_vars

(***************************************************************************)
(* C16: right after a real-time updateBuses(batch) the buses that have a   *)
(* history buffer are exactly the buses the batch reports with a position; *)
(* every other bus has no history, no lagged position, no marker and no    *)
(* trail.                                                                  *)
(***************************************************************************)
Tracked == {b \in Buses : Len(busPositionHistory[b]) > 0}
Reported == {b \in Buses : lastBatch[b] # Absent}

TrackedAreReported ==
  lastOp = "realtime" =>
    /\ Tracked = Reported
    /\ \A b \in Buses \ Reported :
          /\ busPositionHistory[b] = <<>>
          /\ ~currentInterpolatedPositions[b].has
          /\ b \notin busMarkers
          /\ b \notin busTrails

\* A bus the detector had seen at a lagged position was missing from the batch
\* and lost everything, while the other bus stayed.
EvictedBusForgotten ==
  /\ lastOp = "realtime"
  /\ Reported = {"b2"}
  /\ lastBusPositions["b1"].has
  /\ currentInterpolatedPositions["b2"].has
  /\ "b2" \in busTrails

(***************************************************************************)
(* C17: a bus removed from the history store, by pruning or because a      *)
(* real-time batch does not report it, is removed from the arrival         *)
(* detector's last positions as well: the detector holds a last position   *)
(* only for buses that have a history buffer.                              *)
(***************************************************************************)
DetectorForgetsRemovedBuses ==
  \A b \in Buses : busPositionHistory[b] = <<>> => ~lastBusPositions[b].has

(***************************************************************************)
(* C18: stopping the audio cancels every pending one-shot timer of a       *)
(* delayed arrival blast: when stopAudio returns no such timer is left to  *)
(* fire.                                                                   *)
(***************************************************************************)
StopCancelsPendingTimers ==
  [][(isAudioStarted /\ ~isAudioStarted') => blastTimers' = {}]_vars

(***************************************************************************)
(* C19: getHistoricalData never returns an entry whose timestamp is older  *)
(* than the time of the call minus maxAge, whenever entries were added and *)
(* whenever the cleanup timer ran.                                         *)
(***************************************************************************)
ReplayNeverOlderThanMaxAge ==
  (callArgs.op = "getHistoricalData" /\ callResult.done) =>
    \A i \in DOMAIN callResult.value :
      callResult.value[i].timestamp >= callArgs.at - CACHE_MAX_AGE_MS

\* A call found entries older than maxAge in the cache, removed them and
\* returned the rest.
ReplayDroppedOldEntries ==
  /\ callArgs.op = "getHistoricalData"
  /\ callResult.done
  /\ callResult.removedCount > 0
  /\ callResult.value # <<>>

(***************************************************************************)
(* C20: after every addEntry the cache holds at most maxEntries entries,    *)
(* also when more than maxEntries entries are added within one maxAge     *)
(* window.                                                                 *)
(***************************************************************************)
CacheWithinMaxEntries == Len(cacheEntries) <= CACHE_MAX_ENTRIES

(***************************************************************************)
(* C21: on every connection the server first sends every retained cache    *)
(* entry, oldest first and flagged isHistorical, and only then real-time   *)
(* messages; a message is flagged historical exactly when the connection   *)
(* handler sent it.  Retained are the entries added up to the connection   *)
(* and no older than CACHE_MAX_AGE_MS then.                                *)
(***************************************************************************)
HistoricalPrefix(msgs) == SelectSeq(msgs, LAMBDA m : m.isHistorical)

ReplayBeforeRealTime ==
  \A ws \in Sockets :
    /\ \A i \in DOMAIN sent[ws] :
         /\ sent[ws][i].isHistorical <=> sent[ws][i].from = "connection"
         /\ sent[ws][i].isHistorical =>
              \A j \in 1..(i - 1) :
                /\ sent[ws][j].isHistorical
                /\ sent[ws][j].timestamp < sent[ws][i].timestamp
    /\ connectedAt[ws] # NoTime =>
         \A t \in addedAt :
           (t >= connectedAt[ws] - CACHE_MAX_AGE_MS /\ t < connectedAt[ws]) =>
             \E i \in DOMAIN sent[ws] :
               sent[ws][i].isHistorical /\ sent[ws][i].timestamp = t
    /\ \A i \in DOMAIN sent[ws] :
         sent[ws][i].isHistorical =>
           /\ sent[ws][i].timestamp \in addedAt
           /\ sent[ws][i].timestamp >= connectedAt[ws] - CACHE_MAX_AGE_MS
           /\ sent[ws][i].timestamp <= connectedAt[ws]

\* A socket got a replay of two entries and then a real-time message, and
\* an older entry had been dropped from the replay.
ReplayThenRealTime ==
  \E ws \in Sockets :
    /\ Len(HistoricalPrefix(sent[ws])) >= 2
    /\ Len(sent[ws]) > Len(HistoricalPrefix(sent[ws]))
    /\ \E t \in addedAt : t < connectedAt[ws] - CACHE_MAX_AGE_MS

(***************************************************************************)
(* C22: the route id of every arrival event of a bus is the normalized     *)
(* route id under which the positions of that bus are stored and grouped,  *)
(* cleanRouteId of the raw route id of its trip.                           *)
(***************************************************************************)
ArrivalRouteIsGroupedRoute ==
  /\ \A call \in blasts : call.routeId = CleanRouteId(RawRouteOf(call.busId))
  /\ \A timer \in blastTimers : timer.call.routeId = CleanRouteId(RawRouteOf(timer.call.busId))
  /\ \A b \in Buses :
       currentInterpolatedPositions[b].has =>
         currentInterpolatedPositions[b].pos.routeId = CleanRouteId(RawRouteOf(b))

(***************************************************************************)
(* C25: after a message the delay table of a stop holds the record of the  *)
(* last update of the message for that stop with |delay| > 10 s and a      *)
(* route id, and is left as it was when the message has no such update;    *)
(* updates with |delay| <= 10 never create or overwrite a record.          *)
(***************************************************************************)
LargeDelay(update) == Abs(update.delay) > MIN_DELAY_SECONDS
Routed(update) == CleanRouteId(update.rawRouteId) # 0

MaxOf(S) == CHOOSE x \in S : \A y \in S : y <= x

\* The table of stop s after a message whose recordable updates are at the
\* indices q of updates.
LastWriteWins(s, updates, q) ==
  IF q = {} THEN stopDelays'[s] = stopDelays[s]
  ELSE /\ stopDelays'[s].has
       /\ stopDelays'[s].delay = Abs(updates[MaxOf(q)].delay)
       /\ stopDelays'[s].routeId = CleanRouteId(updates[MaxOf(q)].rawRouteId)
       /\ stopDelays'[s].recordedAt = now \div 1000

DelayTableLastRoutedWins ==
  [][lastOp' \in {"historical", "realtime"} =>
       \A s \in Stops :
         LastWriteWins(s, lastUpdates',
                       {i \in DOMAIN lastUpdates' :
                          /\ lastUpdates'[i].stopId = s
                          /\ LargeDelay(lastUpdates'[i])
                          /\ Routed(lastUpdates'[i])})]_vars

\* C25 as stated: the record is that of the last update with |delay| > 10 s,
\* whether it names a route or not.
DelayTableLastWins ==
  [][lastOp' \in {"historical", "realtime"} =>
       \A s \in Stops :
         LastWriteWins(s, lastUpdates',
                       {i \in DOMAIN lastUpdates' :
                          /\ lastUpdates'[i].stopId = s
                          /\ LargeDelay(lastUpdates'[i])})]_vars

\* A message with two recordable updates for s1 has been handled and the
\* table holds the second.
DelayRecordOverwritten ==
  /\ lastUpdates = <<EarlyBehind, LateAhead>>
  /\ stopDelays["s1"].has
  /\ stopDelays["s1"].delay = 60
  /\ stopDelays["s1"].timestamp = FutureTimeSec

(***************************************************************************)
(* C26: an update with |delay| > 10 s and an effective time ahead makes    *)
(* exactly one disruption fire, at that time, however many messages carry  *)
(* it: no two disruptions, pending or fired, are for the same stop, route, *)
(* delay and effective time, and a fired one fired at its effective time.  *)
(***************************************************************************)
SameUpdate(x, y) ==
  /\ x.stopId = y.stopId
  /\ x.routeId = y.routeId
  /\ x.fireAt = y.fireAt

Disruptions ==
  {[stopId |-> t.stopId, routeId |-> t.routeId, fireAt |-> t.fireAt,
    scheduledAt |-> t.scheduledAt, fired |-> FALSE] : t \in delayTimers}
  \cup {[stopId |-> recentDelayEvents[i].stopId, routeId |-> recentDelayEvents[i].routeId,
          fireAt |-> recentDelayEvents[i].fireAt,
          scheduledAt |-> recentDelayEvents[i].scheduledAt, fired |-> TRUE] :
           i \in DOMAIN recentDelayEvents}

OneDisruptionPerUpdate ==
  /\ \A x, y \in Disruptions : SameUpdate(x, y) => x = y
  /\ \A i \in DOMAIN recentDelayEvents :
       recentDelayEvents[i].at = recentDelayEvents[i].fireAt

(***************************************************************************)
(* C23: when a message has been handled, every entry of it with a position *)
(* and a trip has its sample at the end of the history of its bus, and the *)
(* recordable delay updates of the message are in the delay table,         *)
(* whatever other entries of the message lack.                             *)
(***************************************************************************)
WellFormed(entry) == entry # Absent /\ entry # NoTrip

MessageHandled == lastOp \in {"historical", "realtime"}

MalformedEntrySkipped ==
  MessageHandled =>
    /\ \A b \in Buses :
         WellFormed(lastBatch[b]) =>
           /\ Len(busPositionHistory[b]) > 0
           /\ busPositionHistory[b][Len(busPositionHistory[b])].lat = R(lastBatch[b])
           /\ busPositionHistory[b][Len(busPositionHistory[b])].timestamp =
                IF lastOp = "realtime" THEN now
                ELSE AdjustedTimestamp(now, historicalDataCount)
    /\ \A i \in DOMAIN lastUpdates :
         (LargeDelay(lastUpdates[i]) /\ Routed(lastUpdates[i])) =>
           /\ stopDelays[lastUpdates[i].stopId].has
           /\ stopDelays[lastUpdates[i].stopId].recordedAt = now \div 1000

(***************************************************************************)
(* C24: getItemsInRadius returns every anchor whose exact distance to the  *)
(* query point is at most the radius, for query points inside and outside  *)
(* the bounding box.                                                       *)
(***************************************************************************)
NoFalseNegatives ==
  (callArgs.op = "getItemsInRadius" /\ callResult.done) =>
    \A a \in EquatorAnchors :
      DistanceOnEquator(callArgs.lon, a) <= callArgs.radiusMeters => a \in callResult.value

(***************************************************************************)
(* C27: while audio is started, a route that has a bus in each real-time   *)
(* update, the updates arriving every BROADCAST_INTERVAL_MS, eventually    *)
(* has a pulse triggered, whatever its bus count, a single bus included.   *)
(* A route that has been playing since t has had a pulse once its          *)
(* lastPulseTime is t or later; the start times considered leave four      *)
(* broadcast intervals, two pulse periods of a single bus, before the      *)
(* clock of the model ends.                                                *)
(***************************************************************************)
RegularUpdates ==
  IF lastBroadcastAt = NoTime THEN now = StartTime
  ELSE now - lastBroadcastAt <= BROADCAST_INTERVAL_MS

PlayingSince(r, t) ==
  isAudioStarted /\ routes[r].exists /\ routes[r].isPlaying /\ routes[r].playingSince = t

PulsedSince(r, t) == routes[r].exists /\ routes[r].lastPulseTime >= t

PulseStartTimes ==
  {StartTime + k * BROADCAST_INTERVAL_MS : k \in 0..(MaxStepsAudio - 4)}

RoutePlaying(r) ==
  /\ isAudioStarted
  /\ r \in RouteIds
  /\ routes[r].exists
  /\ routes[r].isPlaying
  /\ routes[r].pulseInterval # NoInterval

DelayEventSlowsPulse ==
  [][\A timer \in delayTimers :
       (timer \notin delayTimers' /\ RoutePlaying(timer.routeId)) =>
         /\ routes'[timer.routeId].pulseInterval # NoInterval
         /\ routes'[timer.routeId].pulseInterval.intervalMs >
              routes[timer.routeId].pulseInterval.intervalMs]_vars

(***************************************************************************)
(* C29: the k-th historical batch of a replay burst is stamped             *)
(* ingestTime - (HISTORICAL_SPREAD_MS - k * HISTORICAL_INTERVAL_MS), all   *)
(* its samples alike, so that consecutive batches of the burst are         *)
(* HISTORICAL_INTERVAL_MS apart plus the time that passed between them.    *)
(***************************************************************************)
HistoricalBatchHandled == burstIndex' = burstIndex + 1

BurstStampedInArrivalOrder ==
  [][HistoricalBatchHandled =>
       \A b \in Buses :
         lastBatch'[b] # Absent =>
           busPositionHistory'[b][Len(busPositionHistory'[b])].timestamp =
             AdjustedTimestamp(now, burstIndex')]_vars

(***************************************************************************)
(* C30: when an arrival is emitted and the previous position was already   *)
(* within the proximity threshold (distancePrev <= threshold), the         *)
(* crossing time is exactly the timestamp of the previous position.        *)
(***************************************************************************)
AlreadyWithinThreshold == {e \in emitted : RLe(e.distancePrev, R(STOP_THRESHOLD_METERS))}

CrossingTimeIsPreviousTimestamp ==
  \A e \in AlreadyWithinThreshold : e.crossingTime = R(e.prevTimestamp)

\* An arrival was emitted for a bus that came closer inside the threshold,
\* its previous position an earlier one.
ArrivedFromWithinThreshold ==
  \E e \in AlreadyWithinThreshold : e.prevTimestamp < e.at

(***************************************************************************)
(* C31: cleanupOldArrivals removes only debounce records older than        *)
(* 2 * ARRIVAL_DEBOUNCE_MS, never one that is still inside the debounce    *)
(* window, so no step emits an arrival within the debounce window of an    *)
(* earlier arrival of the same bus at the same stop, whenever the cleanup  *)
(* has run.                                                                *)
(***************************************************************************)
CleanupKeepsDebounceWindow ==
  [][/\ \A k \in Buses \X Stops :
          (recentArrivals[k] # NoTime /\ recentArrivals'[k] = NoTime) =>
            now - recentArrivals[k] > 2 * ARRIVAL_DEBOUNCE_MS
     /\ \A e \in emitted' \ emitted :
          \A e0 \in EmissionsOf(e.busId, e.stopId) :
            e.at - e0.at > ARRIVAL_DEBOUNCE_MS]_vars

\* The cleanup has deleted the debounce record of an arrival.
DebounceRecordCleanedUp ==
  \E e \in emitted : recentArrivals[<<e.busId, e.stopId>>] = NoTime

(***************************************************************************)
(* C32: the delay passed with an arrival blast is the stored delay of the  *)
(* stop only if the route id of the stored record equals the route id of   *)
(* the arrival and the record was recorded less than 3600 s before the     *)
(* arrival; with no record, a record of another route or an expired record *)
(* that has not been cleaned up, the delay is 0.                           *)
(***************************************************************************)
BlastCalls == blasts \cup {timer.call : timer \in blastTimers}

BlastDelayFromFreshRecord ==
  [][\A call \in BlastCalls' \ BlastCalls :
       LET record == stopDelays[call.stopId]
       IN IF /\ record.has
             /\ record.routeId = call.routeId
             /\ call.at - record.recordedAt * 1000 < 3600 * 1000
          THEN call.delay = record.delay
          ELSE call.delay = 0]_vars

\* A blast was passed the stored delay of its stop.
BlastWithStoredDelay == \E call \in BlastCalls : call.delay > 0

(***************************************************************************)
(* C33: processing a historical batch changes only the history buffers of  *)
(* the buses in the batch and the historical counter: it emits no arrival, *)
(* leaves the last-position table, the debounce table and the audio state  *)
(* of the routes unchanged, and removes no bus that is absent from the     *)
(* batch.                                                                  *)
(***************************************************************************)
HistoricalBatchOnlyExtendsHistory ==
  [][HistoricalBatchHandled =>
       /\ emitted' = emitted
       /\ lastBusPositions' = lastBusPositions
       /\ recentArrivals' = recentArrivals
       /\ blasts' = blasts /\ blastTimers' = blastTimers
       /\ recentArrivalEvents' = recentArrivalEvents
       /\ routes' = routes /\ routeBusData' = routeBusData
       /\ currentInterpolatedPositions' = currentInterpolatedPositions
       /\ busMarkers' = busMarkers /\ busTrails' = busTrails
       /\ historicalDataCount' = historicalDataCount + 1
       /\ \A b \in Buses :
            IF lastBatch'[b] = Absent
            THEN busPositionHistory'[b] = busPositionHistory[b]
            ELSE /\ Len(busPositionHistory'[b]) >= Len(busPositionHistory[b])
                 /\ Len(busPositionHistory'[b]) > 0]_vars

\* A historical batch was handled that does not hold a bus that is tracked.
HistoricalBatchWithoutTrackedBus ==
  /\ lastOp = "historical"
  /\ \E b \in Buses : lastBatch[b] = Absent /\ Len(busPositionHistory[b]) > 0

(***************************************************************************)
(* C34: in every reachable state every bus that has an entry in            *)
(* currentInterpolatedPositions or in busMarkers also has an entry in      *)
(* busPositionHistory, whatever the order of animation frames, historical  *)
(* messages, real-time messages and prune passes.  An entry of             *)
(* busPositionHistory always holds at least one sample: a key is created   *)
(* only to be pushed to, and cleanupOldHistory removes the bus whose       *)
(* history it has emptied.                                                 *)
(***************************************************************************)
TrackedBuses == {b \in Buses : Len(busPositionHistory[b]) > 0}

DisplayedBusesAreTracked ==
  \A b \in Buses :
    (currentInterpolatedPositions[b].has \/ b \in busMarkers) => b \in TrackedBuses

\* A prune pass has removed a bus that the detector had seen displayed.
PrunedDisplayedBus ==
  /\ lastOp = "animate"
  /\ \E b \in cleanupRemoved : lastBusPositions[b] # NoPos

(***************************************************************************)
(* C35: every sample taken in from a historical message gets a timestamp   *)
(* that is not later than the time at which the message is handled,        *)
(* however many historical messages the map manager has handled before:    *)
(* more than nine in one burst, or a second replay after a reconnect.      *)
(***************************************************************************)
LastSample(b) == busPositionHistory[b][Len(busPositionHistory[b])]

HistoricalStampNotAfterIngestion ==
  lastOp = "historical" =>
    \A b \in Buses : lastBatch[b] # Absent => LastSample(b).timestamp <= now

\* The same, for the historical messages of the first connection only, up
\* to the ninth.
FirstNineStampsNotAfterIngestion ==
  (lastOp = "historical" /\ historicalDataCount * HISTORICAL_INTERVAL_MS <= HISTORICAL_SPREAD_MS) =>
    \A b \in Buses : lastBatch[b] # Absent => LastSample(b).timestamp <= now

(***************************************************************************)
(* C36: no feed batch the server recorded is appended to the history of a  *)
(* bus more than once on one page: a batch reaches the page as a replayed  *)
(* message or as a real-time message, never as both, also when the socket  *)
(* reconnects and gets a new replay.  Every batch of the feed has the bus  *)
(* at another place, so two samples of one batch are two samples of the    *)
(* same latitude.                                                          *)
(***************************************************************************)
NoBatchAppendedTwice ==
  \A b \in Buses :
    \A i, j \in DOMAIN busPositionHistory[b] :
      i # j => busPositionHistory[b][i].lat # busPositionHistory[b][j].lat

\* The same, on the first connection of the page.
NoBatchAppendedTwiceBeforeReconnect == connects <= 1 => NoBatchAppendedTwice

(***************************************************************************)
(* C37: after a connection closes the client makes at most five            *)
(* consecutive reconnection attempts, the n-th 1000 * 2^(n-1) ms after the *)
(* failure before it; reconnectAttempts never exceeds 5 and is 0 after     *)
(* every onopen; when the fifth consecutive attempt has failed the status  *)
(* becomes 'Connection failed' and no further attempt is scheduled or      *)
(* made.                                                                   *)
(***************************************************************************)
NewReconnectTimers == reconnectTimers' \ reconnectTimers

SocketOpened == \E i \in DOMAIN sockets : sockets[i] = "connecting" /\ sockets'[i] = "open"

SocketClosed == \E i \in DOMAIN sockets : sockets[i] # "closed" /\ sockets'[i] = "closed"

ReconnectBackoffBounded ==
  [][/\ reconnectAttempts' \in 0..5
     /\ attemptsSinceOpen' <= 5
     /\ \A timer \in NewReconnectTimers :
          /\ timer.attempt \in 1..5
          /\ timer.attempt = reconnectAttempts'
          /\ timer.attempt = attemptsSinceOpen' + 1
          /\ timer.due = now + 1000 * 2 ^ (timer.attempt - 1)
     /\ SocketOpened => reconnectAttempts' = 0
     /\ (SocketClosed /\ attemptsSinceOpen = 5) =>
          (status' = "Connection failed" /\ NewReconnectTimers = {})
     /\ status = "Connection failed" =>
          (Len(sockets') = Len(sockets) /\ reconnectTimers' = {})]_vars

\* The fifth consecutive attempt has failed.
FifthAttemptFailed == status = "Connection failed" /\ attemptsSinceOpen = 5

(***************************************************************************)
(* C38: once disconnect() has been called the client opens no new          *)
(* connection: neither the close event of the socket it closed nor a       *)
(* reconnect timer that was pending leads to another new WebSocket().      *)
(***************************************************************************)
NoConnectAfterDisconnect ==
  [][disconnectCalled => Len(sockets') = Len(sockets)]_vars

(***************************************************************************)
(* C39: at most one animation frame of the stops layer is requested and    *)
(* not yet run at any time, whatever the order of animateStopPulse calls,  *)
(* redraws that find the last animation over, and frames: no second        *)
(* animation loop runs beside the first.                                   *)
(***************************************************************************)
AtMostOneFramePending == Cardinality(pendingFrames) <= 1
====
